---- MODULE Spec2Model ----
(***************************************************************************)
(* Model of the multi-criterion edge generation engine of deepgit           *)
(* (backend/app/services/edge_generation_service.py).                       *)
(*                                                                          *)
(* A Python str is a sequence of one-character strings, so that split,      *)
(* strip, join and str() are computed as the code computes them.  The only  *)
(* multi-character elements are the fixed edge-type labels                  *)
(* ("topic_based", "combined", ...), which never contain a delimiter.       *)
(* A Python dict is a function whose DOMAIN is its key set; a Python list   *)
(* is a sequence; a raw attribute that is None is the record RawNone.       *)
(***************************************************************************)
EXTENDS Integers, Sequences, FiniteSets, TLC


----------------------------------------------------------------------------
(* Python str primitives *)

\* Code points of the characters used by the inputs (ASCII order).
Alphabet == <<" ", "\"", "'", ",", "/", "0", "1", "2", "3", "4", "5", "6",
              "7", "8", "9", "[", "]", "a", "b", "c", "d", "m", "s", "t",
              "u", "v", "w", "x", "y", "z", "|">>

Ord(c) == CHOOSE i \in 1..Len(Alphabet) : Alphabet[i] = c

\* str.__le__: lexicographic comparison by code point.
RECURSIVE StrLeq(_, _)
StrLeq(s, t) ==
    IF s = <<>> THEN TRUE
    ELSE IF t = <<>> THEN FALSE
    ELSE IF s[1] = t[1] THEN StrLeq(Tail(s), Tail(t))
    ELSE Ord(s[1]) < Ord(t[1])

\* str.split(d): always at least one piece; empty pieces are kept.
RECURSIVE SplitFrom(_, _, _, _)
SplitFrom(s, d, i, cur) ==
    IF i > Len(s) THEN <<cur>>
    ELSE IF s[i] = d THEN <<cur>> \o SplitFrom(s, d, i + 1, <<>>)
    ELSE SplitFrom(s, d, i + 1, Append(cur, s[i]))

Split(s, d) == SplitFrom(s, d, 1, <<>>)

\* str.strip(chars): drop leading and trailing characters of the set cs.
RECURSIVE LStrip(_, _)
LStrip(s, cs) == IF s # <<>> /\ s[1] \in cs THEN LStrip(Tail(s), cs) ELSE s

RECURSIVE RStrip(_, _)
RStrip(s, cs) ==
    IF s # <<>> /\ s[Len(s)] \in cs THEN RStrip(SubSeq(s, 1, Len(s) - 1), cs)
    ELSE s

StripChars(s, cs) == RStrip(LStrip(s, cs), cs)

Whitespace == {" "}
Quotes == {"\"", "'"}

Strip(s) == StripChars(s, Whitespace)

\* d.join(items) for a list of str.
RECURSIVE Join(_, _)
Join(items, d) ==
    IF items = <<>> THEN <<>>
    ELSE IF Len(items) = 1 THEN items[1]
    ELSE items[1] \o <<d>> \o Join(Tail(items), d)

Contains(s, c) == \E i \in 1..Len(s) : s[i] = c

SeqRange(q) == {q[i] : i \in 1..Len(q)}

\* str(n) for a non-negative int.
Digits == <<"0", "1", "2", "3", "4", "5", "6", "7", "8", "9">>

RECURSIVE IntToStr(_)
IntToStr(n) ==
    IF n < 10 THEN <<Digits[n + 1]>>
    ELSE IntToStr(n \div 10) \o <<Digits[(n % 10) + 1]>>

----------------------------------------------------------------------------
(* Python values held in dicts: a value carries its Python type, so that   *)
(* isinstance(value, list) is decided as in the code.                       *)

PyStr(s) == [t |-> "str", v |-> s]
PyList(q) == [t |-> "list", v |-> q]
PyInt(n) == [t |-> "int", v |-> n]

IsList(x) == x.t = "list"

\* dict.get(key, default)
Get(d, k, default) == IF k \in DOMAIN d THEN d[k] ELSE default

\* dict.update(other): keys of other win.
Update(d, other) ==
    [k \in (DOMAIN d) \cup (DOMAIN other) |->
        IF k \in DOMAIN other THEN other[k] ELSE d[k]]

EmptyDict == [k \in {} |-> 0]

\* n!: the number of orders in which n elements can be listed
RECURSIVE Factorial(_)
Factorial(n) == IF n = 0 THEN 1 ELSE n * Factorial(n - 1)

\* The elements of a set of str in ascending order
RECURSIVE Ascending(_)
Ascending(S) ==
    IF S = {} THEN <<>>
    ELSE LET x == CHOOSE e \in S : \A y \in S : StrLeq(e, y)
         IN <<x>> \o Ascending(S \ {x})

\* The order-th arrangement of items, 0 <= order < Factorial(Len(items)),
\* counted in lexicographic order of positions (0 leaves items as they are).
RECURSIVE Arrangement(_, _)
Arrangement(items, order) ==
    IF items = <<>> THEN <<>>
    ELSE LET f == Factorial(Len(items) - 1)
             i == (order \div f) + 1
         IN <<items[i]>> \o Arrangement(SubSeq(items, 1, i - 1)
                                          \o SubSeq(items, i + 1, Len(items)),
                                        order % f)

\* list(a_set): the iteration order of a set of str depends on the process's
\* string hashing and on the history of the set object, so a call can list
\* its set in any order; order tells which of the Factorial(|S|) it did.
SetToList(S, order) == Arrangement(Ascending(S), order % Factorial(Cardinality(S)))

\* A call of list(a_set) is named by the stage of the run that makes it, the
\* field it fills and the pair of nodes of the edge. h records the order each
\* call of a run produced; a call h does not name lists ascending.
OrderAt(h, site) == IF site \in DOMAIN h THEN h[site] ELSE 0

\* No call of list(a_set) has been made.
NoListing == [site \in {} |-> 0]

----------------------------------------------------------------------------
(* Attribute parsing *)

StartsWith(s, c) == s # <<>> /\ s[1] = c
EndsWith(s, c) == s # <<>> /\ s[Len(s)] = c

\* {item for item in items if item}
NonEmptyItems(items) == {items[i] : i \in {j \in 1..Len(items) : items[j] # <<>>}}

\* [item.strip() for item in s.split(d)]
StrippedPieces(s, d) ==
    LET pieces == Split(s, d)
    IN [i \in 1..Len(pieces) |-> Strip(pieces[i])]

\* [item.strip().strip('"\'') for item in s.split(',')]
UnquotedPieces(s) ==
    LET pieces == Split(s, ",")
    IN [i \in 1..Len(pieces) |-> StripChars(Strip(pieces[i]), Quotes)]

\* A node attribute whose value is a non-zero int instead of a str, as read
\* from a graph file that declares the attribute as integer.
NotAStr == <<"int 5">>

\* data_str.strip(), '|' in topics_str: what a str supports and an int does not.
IsStr(value) == value # NotAStr

\* EdgeGenerationService._parse_list_string, for a str argument
\* (bracketed list, then pipe, then comma, then single value); a truthy
\* argument that is not a str raises in data_str.strip(), see AttributeRaises.
_parse_list_string(data_str) ==
    IF data_str = <<>> THEN {}
    ELSE LET s == Strip(data_str)
         IN IF s = <<>> THEN {}
            ELSE IF StartsWith(s, "[") /\ EndsWith(s, "]")
            THEN LET inner_content == Strip(SubSeq(s, 2, Len(s) - 1))
                 IN IF inner_content # <<>>
                    THEN NonEmptyItems(UnquotedPieces(inner_content))
                    ELSE {}
            ELSE IF Contains(s, "|") THEN NonEmptyItems(StrippedPieces(s, "|"))
            ELSE IF Contains(s, ",") THEN NonEmptyItems(StrippedPieces(s, ","))
            ELSE {s}

\* A value read from the corpus: None, a list of str, a str, or a number.
RawNone == [kind |-> "none", val |-> <<>>]
RawList(q) == [kind |-> "list", val |-> q]
RawStr(s) == [kind |-> "str", val |-> s]
RawInt == [kind |-> "int", val |-> <<"5">>]

\* EdgeGenerationService._format_list_data
_format_list_data(data) ==
    IF data.kind = "int" THEN <<>>
    ELSE IF data.kind = "none" \/ data.val = <<>> THEN <<>>
    ELSE IF data.kind = "list" THEN Join(data.val, ",")
    ELSE IF StartsWith(data.val, "[") /\ EndsWith(data.val, "]")
    THEN SubSeq(data.val, 2, Len(data.val) - 1)
    ELSE <<>>

----------------------------------------------------------------------------
(* The graph value (networkx.Graph): nodes in insertion order, a dict of    *)
(* attributes per node, and a dict of attributes per undirected edge, keyed *)
(* by the set of its two endpoints.                                         *)

EmptyGraph == [nodes |-> <<>>, attrs |-> EmptyDict, edges |-> EmptyDict]

\* repo['topics'] or ""
OrEmpty(raw) == IF raw.kind = "none" THEN <<>> ELSE raw.val

\* EdgeGenerationService._add_nodes_to_graph: the attributes the engine reads
\* (the numeric and descriptive attributes are passed through unread).
RECURSIVE _add_nodes_to_graph(_, _)
_add_nodes_to_graph(G, repos) ==
    IF repos = <<>> THEN G
    ELSE LET repo == repos[1]
             id == repo.nameWithOwner
             node_attrs == [topics |-> OrEmpty(repo.topics),
                            contributors |-> _format_list_data(repo.bigquery_contributors),
                            stargazers |-> _format_list_data(repo.bigquery_stargazers)]
             G1 == [G EXCEPT
                      !.nodes = IF id \in SeqRange(G.nodes) THEN @ ELSE Append(@, id),
                      !.attrs = Update(@, [k \in {id} |-> node_attrs])]
         IN _add_nodes_to_graph(G1, Tail(repos))

\* Faulty variant of RemoveAllEdges: the uploaded edges stay in the graph.
RemoveAllEdgesKeepsEdges(G) == G

\* G.remove_edges_from(list(G.edges()))
RemoveAllEdges(G) == [G EXCEPT !.edges = EmptyDict]

\* G.add_node(id) without attributes: a node the graph has stays as it is.
AddNode(G, id) ==
    IF id \in SeqRange(G.nodes) THEN G
    ELSE [G EXCEPT !.nodes = Append(@, id),
                   !.attrs = Update(@, [k \in {id} |-> EmptyDict])]

\* G.add_edges_from(edges): an endpoint the graph lacks is added as a node,
\* and a repeated pair updates the attributes it has.
RECURSIVE AddEdgesFrom(_, _)
AddEdgesFrom(G, edges) ==
    IF edges = <<>> THEN G
    ELSE LET e == edges[1]
             key == {e[1], e[2]}
             G0 == AddNode(AddNode(G, e[1]), e[2])
             old == IF key \in DOMAIN G0.edges THEN G0.edges[key] ELSE EmptyDict
             G1 == [G0 EXCEPT !.edges = Update(@, [k \in {key} |-> Update(old, e[3])])]
         IN AddEdgesFrom(G1, Tail(edges))

----------------------------------------------------------------------------
(* Criterion evaluators.  A candidate edge is the tuple                     *)
(* <<repo1, repo2, edge_data>>; every evaluator scans the pairs             *)
(* (nodes[i], nodes[j]) with i < j in list order.                           *)

RECURSIVE PairsFrom(_, _, _)
PairsFrom(i, j, n) ==
    IF i >= n THEN <<>>
    ELSE IF j > n THEN PairsFrom(i + 1, i + 2, n)
    ELSE <<(<<i, j>>)>> \o PairsFrom(i, j + 1, n)

\* Faulty variant of IndexPairs: the inner loop runs over all the nodes.
IndexPairsAllNodes(n) ==
    [k \in 1..(n * n) |-> <<((k - 1) \div n) + 1, ((k - 1) % n) + 1>>]

\* for i, repo1 in enumerate(nodes): for j, repo2 in enumerate(nodes[i+1:], i+1)
IndexPairs(n) == PairsFrom(1, 2, n)

\* The pairs (repo1, repo2) in the order the nested loops visit them
OrderedPairs(nodes) ==
    LET ip == IndexPairs(Len(nodes))
    IN [k \in 1..Len(ip) |-> <<nodes[ip[k][1]], nodes[ip[k][2]]>>]

TopicEdge(repo1, repo2, shared, h) ==
    <<repo1, repo2, [edge_type |-> PyStr(<<"topic_based">>),
                     shared_topics |->
                         PyList(SetToList(shared, OrderAt(h, <<"evaluate", "shared_topics", repo1, repo2>>))),
                     weight |-> PyInt(Cardinality(shared))]>>

ContributorEdge(repo1, repo2, shared, h) ==
    <<repo1, repo2, [edge_type |-> PyStr(<<"contributor_overlap">>),
                     shared_contributors |->
                         PyList(SetToList(shared, OrderAt(h, <<"evaluate", "shared_contributors", repo1, repo2>>))),
                     weight |-> PyInt(Cardinality(shared))]>>

OrganizationEdge(repo1, repo2, org) ==
    <<repo1, repo2, [edge_type |-> PyStr(<<"shared_organization">>),
                     organization |-> PyStr(org),
                     weight |-> PyInt(1)]>>

StargazerEdge(repo1, repo2, shared, h) ==
    <<repo1, repo2, [edge_type |-> PyStr(<<"stargazer_overlap">>),
                     shared_stargazers |->
                         PyList(SetToList(shared, OrderAt(h, <<"evaluate", "shared_stargazers", repo1, repo2>>))),
                     weight |-> PyInt(Cardinality(shared))]>>

\* set(G.nodes[repo]['topics'].split('|')) if G.nodes[repo]['topics'] else set()
TopicsOfNode(G, repo) ==
    IF G.attrs[repo]["topics"] # <<>>
    THEN SeqRange(Split(G.attrs[repo]["topics"], "|"))
    ELSE {}

\* EdgeGenerationService._generate_topic_based_edges (no threshold argument)
_generate_topic_based_edges(G, h) ==
    LET shared_topics(r1, r2) == TopicsOfNode(G, r1) \cap TopicsOfNode(G, r2)
    IN LET kept == SelectSeq(OrderedPairs(G.nodes),
                             LAMBDA pair :
                                 LET r1 == pair[1]  r2 == pair[2]
                                 IN shared_topics(r1, r2) # {})
       IN [k \in 1..Len(kept) |->
              LET r1 == kept[k][1]  r2 == kept[k][2]
              IN TopicEdge(r1, r2, shared_topics(r1, r2), h)]

\* EdgeGenerationService._generate_contributor_overlap_edges
_generate_contributor_overlap_edges(G, threshold, h) ==
    LET shared(r1, r2) ==
            _parse_list_string(Get(G.attrs[r1], "contributors", <<>>))
            \cap _parse_list_string(Get(G.attrs[r2], "contributors", <<>>))
    IN LET kept == SelectSeq(OrderedPairs(G.nodes),
                             LAMBDA pair :
                                 LET r1 == pair[1]  r2 == pair[2]
                                 IN Cardinality(shared(r1, r2)) >= threshold)
       IN [k \in 1..Len(kept) |->
              LET r1 == kept[k][1]  r2 == kept[k][2]
              IN ContributorEdge(r1, r2, shared(r1, r2), h)]

\* Faulty variant of OrgOf: the segment after the first '/' is taken.
OrgOfSecondSegment(repo) == IF Contains(repo, "/") THEN Split(repo, "/")[2] ELSE <<>>

\* repo.split('/')[0] if '/' in repo else None   (None and "" are both falsy)
OrgOf(repo) == IF Contains(repo, "/") THEN Split(repo, "/")[1] ELSE <<>>

\* EdgeGenerationService._generate_shared_organization_edges
_generate_shared_organization_edges(nodes) ==
    LET kept == SelectSeq(OrderedPairs(nodes),
                          LAMBDA pair :
                              LET r1 == pair[1]  r2 == pair[2]
                              IN OrgOf(r1) # <<>> /\ OrgOf(r2) # <<>> /\ OrgOf(r1) = OrgOf(r2))
    IN [k \in 1..Len(kept) |->
           LET r1 == kept[k][1]  r2 == kept[k][2]
           IN OrganizationEdge(r1, r2, OrgOf(r1))]

\* EdgeGenerationService._generate_stargazer_overlap_edges
_generate_stargazer_overlap_edges(G, threshold, h) ==
    LET shared(r1, r2) ==
            _parse_list_string(Get(G.attrs[r1], "stargazers", <<>>))
            \cap _parse_list_string(Get(G.attrs[r2], "stargazers", <<>>))
    IN LET kept == SelectSeq(OrderedPairs(G.nodes),
                             LAMBDA pair :
                                 LET r1 == pair[1]  r2 == pair[2]
                                 IN Cardinality(shared(r1, r2)) >= threshold)
       IN [k \in 1..Len(kept) |->
              LET r1 == kept[k][1]  r2 == kept[k][2]
              IN StargazerEdge(r1, r2, shared(r1, r2), h)]

\* set(s.split('|')) if '|' in s else set([s]); then discard('')
TopicsOfString(s) ==
    (IF Contains(s, "|") THEN SeqRange(Split(s, "|")) ELSE {s}) \ {<<>>}

\* EdgeGenerationService._generate_topic_based_edges_from_graph
_generate_topic_based_edges_from_graph(G, nodes, threshold, h) ==
    LET t(r) == Get(G.attrs[r], "topics", <<>>)
        shared_topics(r1, r2) == TopicsOfString(t(r1)) \cap TopicsOfString(t(r2))
    IN LET kept == SelectSeq(OrderedPairs(nodes),
                             LAMBDA pair :
                                 LET r1 == pair[1]  r2 == pair[2]
                                 IN t(r1) # <<>> /\ t(r2) # <<>> /\ Cardinality(shared_topics(r1, r2)) >= threshold)
       IN [k \in 1..Len(kept) |->
              LET r1 == kept[k][1]  r2 == kept[k][2]
              IN TopicEdge(r1, r2, shared_topics(r1, r2), h)]

\* EdgeGenerationService._generate_contributor_overlap_edges_from_graph
_generate_contributor_overlap_edges_from_graph(G, nodes, threshold, h) ==
    LET c(r) == Get(G.attrs[r], "contributors", <<>>)
        shared(r1, r2) == _parse_list_string(c(r1)) \cap _parse_list_string(c(r2))
    IN LET kept == SelectSeq(OrderedPairs(nodes),
                             LAMBDA pair :
                                 LET r1 == pair[1]  r2 == pair[2]
                                 IN c(r1) # <<>> /\ c(r2) # <<>> /\ Cardinality(shared(r1, r2)) >= threshold)
       IN [k \in 1..Len(kept) |->
              LET r1 == kept[k][1]  r2 == kept[k][2]
              IN ContributorEdge(r1, r2, shared(r1, r2), h)]

\* EdgeGenerationService._generate_shared_organization_edges_from_graph
_generate_shared_organization_edges_from_graph(nodes) ==
    LET kept == SelectSeq(OrderedPairs(nodes),
                          LAMBDA pair :
                              LET r1 == pair[1]  r2 == pair[2]
                              IN OrgOf(r1) # <<>> /\ OrgOf(r2) # <<>> /\ OrgOf(r1) = OrgOf(r2))
    IN [k \in 1..Len(kept) |->
           LET r1 == kept[k][1]  r2 == kept[k][2]
           IN OrganizationEdge(r1, r2, OrgOf(r1))]

\* EdgeGenerationService._generate_stargazer_overlap_edges_from_graph
_generate_stargazer_overlap_edges_from_graph(G, nodes, threshold, h) ==
    LET c(r) == Get(G.attrs[r], "stargazers", <<>>)
        shared(r1, r2) == _parse_list_string(c(r1)) \cap _parse_list_string(c(r2))
    IN LET kept == SelectSeq(OrderedPairs(nodes),
                             LAMBDA pair :
                                 LET r1 == pair[1]  r2 == pair[2]
                                 IN c(r1) # <<>> /\ c(r2) # <<>> /\ Cardinality(shared(r1, r2)) >= threshold)
       IN [k \in 1..Len(kept) |->
              LET r1 == kept[k][1]  r2 == kept[k][2]
              IN StargazerEdge(r1, r2, shared(r1, r2), h)]

----------------------------------------------------------------------------
(* Combination engine *)

FlagKeys == <<"topic_based_linking", "contributor_overlap_enabled",
              "shared_organization_enabled", "common_stargazers_enabled">>

\* edge_key = tuple(sorted([repo1, repo2]))
EdgeKey(edge) ==
    IF StrLeq(edge[1], edge[2]) THEN <<edge[1], edge[2]>> ELSE <<edge[2], edge[1]>>

\* Keys of edge_groups in insertion order (a dict keeps first-insertion order).
RECURSIVE GroupKeys(_, _)
GroupKeys(edges, seen) ==
    IF edges = <<>> THEN seen
    ELSE IF EdgeKey(edges[1]) \in SeqRange(seen) THEN GroupKeys(Tail(edges), seen)
    ELSE GroupKeys(Tail(edges), Append(seen, EdgeKey(edges[1])))

\* edge_groups: one list of candidate edges per pair key, in insertion order.
EdgeGroups(all_edges) ==
    LET keys == GroupKeys(all_edges, <<>>)
    IN [k \in 1..Len(keys) |->
          SelectSeq(all_edges, LAMBDA e : EdgeKey(e) = keys[k])]

\* Faulty variant of SumWeights: every merged candidate counts as weight 1.
SumWeightsOnePerEdge(edges) == Len(edges)

RECURSIVE SumWeights(_)
SumWeights(edges) ==
    IF edges = <<>> THEN 0
    ELSE Get(edges[1][3], "weight", PyInt(1)).v + SumWeights(Tail(edges))

\* Faulty variant of EdgeTypeOrType: only the 'type' key is consulted.
EdgeTypeOnlyType(edge_data) == Get(edge_data, "type", PyStr(<<"unknown">>)).v

\* edge_data.get('edge_type', edge_data.get('type', 'unknown'))
EdgeTypeOrType(edge_data) ==
    Get(edge_data, "edge_type", Get(edge_data, "type", PyStr(<<"unknown">>))).v

\* shared_data[key]: the values recorded under key by the edges, in order;
\* a list value is extended, any other value is appended.
RECURSIVE SharedValues(_, _)
SharedValues(edges, key) ==
    IF edges = <<>> THEN <<>>
    ELSE LET edge_data == edges[1][3]
             here == IF key \notin DOMAIN edge_data THEN <<>>
                     ELSE IF IsList(edge_data[key]) THEN edge_data[key].v
                     ELSE <<edge_data[key].v>>
         IN here \o SharedValues(Tail(edges), key)

\* Faulty variant of SharedKeys: only the keys of the first edge are merged.
SharedKeysOfFirstEdge(edges) == DOMAIN edges[1][3] \ {"edge_type", "type", "weight"}

SharedKeys(edges) ==
    UNION {DOMAIN edges[i][3] : i \in 1..Len(edges)} \ {"edge_type", "type", "weight"}

\* EdgeGenerationService._create_combined_edge, for a non-empty list of edges
_create_combined_edge(edges, h) ==
    LET first_edge == edges[1]
        edge_types == [i \in 1..Len(edges) |-> EdgeTypeOrType(edges[i][3])]
        total_weight == SumWeights(edges)
        shared_data == [key \in SharedKeys(edges) |->
                          PyList(SetToList(SeqRange(SharedValues(edges, key)),
                                           OrderAt(h, <<"merge", key, first_edge[1],
                                                        first_edge[2]>>)))]
        combined_data == Update([edge_type |-> PyStr(<<"combined">>),
                                 criteria_satisfied |-> PyList(edge_types),
                                 weight |-> PyInt(total_weight)],
                                shared_data)
    IN <<first_edge[1], first_edge[2], combined_data>>

\* EdgeGenerationService._apply_combination_logic
_apply_combination_logic(all_edges, criteria_config, h) ==
    IF all_edges = <<>> THEN <<>>
    ELSE LET edge_groups == EdgeGroups(all_edges)
         IN [g \in 1..Len(edge_groups) |->
               IF Len(edge_groups[g]) = 1 THEN edge_groups[g][1]
               ELSE _create_combined_edge(edge_groups[g], h)]

\* sum([criteria_config.get(flag, False) for the four flags])
EnabledCount(criteria_config) ==
    Cardinality({i \in 1..Len(FlagKeys) : Get(criteria_config, FlagKeys[i], FALSE)})

\* satisfied_criteria: the set of edge types of a pair's candidate edges
SatisfiedCriteria(edges_for_pair) ==
    {Get(edges_for_pair[i][3], "edge_type", PyStr(<<"unknown">>)).v :
        i \in 1..Len(edges_for_pair)}

\* EdgeGenerationService._apply_flexible_and_logic
_apply_flexible_and_logic(all_edges, criteria_config, h) ==
    IF all_edges = <<>> THEN <<>>
    ELSE IF EnabledCount(criteria_config) <= 1 THEN all_edges
    ELSE LET min_criteria_required ==
                 IF Get(criteria_config, "strict_and_logic", FALSE)
                 THEN EnabledCount(criteria_config)
                 ELSE Get(criteria_config, "min_criteria_required", 2)
             kept == SelectSeq(EdgeGroups(all_edges),
                               LAMBDA edges_for_pair :
                                  Cardinality(SatisfiedCriteria(edges_for_pair))
                                     >= min_criteria_required)
         IN [g \in 1..Len(kept) |-> _create_combined_edge(kept[g], h)]

\* required_criteria of _apply_strict_and_logic
RequiredCriteria(criteria_config) ==
    (IF Get(criteria_config, "topic_based_linking", FALSE)
        THEN {<<"topic_based">>} ELSE {})
    \cup (IF Get(criteria_config, "contributor_overlap_enabled", FALSE)
             THEN {<<"contributor_overlap">>} ELSE {})
    \cup (IF Get(criteria_config, "shared_organization_enabled", FALSE)
             THEN {<<"shared_organization">>} ELSE {})
    \cup (IF Get(criteria_config, "common_stargazers_enabled", FALSE)
             THEN {<<"stargazer_overlap">>} ELSE {})

\* EdgeGenerationService._apply_strict_and_logic
_apply_strict_and_logic(all_edges, criteria_config, h) ==
    IF all_edges = <<>> THEN <<>>
    ELSE IF EnabledCount(criteria_config) <= 1 THEN all_edges
    ELSE LET kept == SelectSeq(EdgeGroups(all_edges),
                               LAMBDA edges_for_pair :
                                  RequiredCriteria(criteria_config)
                                     \subseteq SatisfiedCriteria(edges_for_pair))
         IN [g \in 1..Len(kept) |-> _create_combined_edge(kept[g], h)]

\* Faulty variant of KeepCombined: the use_and_logic filter keeps every edge.
KeepCombinedKeepsAll(edges) == edges

\* filtered_edges: the edges whose edge_type is 'combined'
KeepCombined(edges) ==
    SelectSeq(edges, LAMBDA edge : Get(edge[3], "edge_type", PyStr(<<"unknown">>)).v
                                      = <<"combined">>)

\* Faulty variant of CombineEdges: min_criteria_required is consulted before
\* strict_and_logic, and use_and_logic before both.
CombineEdgesReversedPrecedence(all_edges, criteria_config, use_and_logic, h) ==
    IF use_and_logic
    THEN SelectSeq(_apply_combination_logic(all_edges, criteria_config, h),
                   LAMBDA edge : Get(edge[3], "edge_type", PyStr(<<"unknown">>)).v
                                    = <<"combined">>)
    ELSE IF Get(criteria_config, "min_criteria_required", 0) > 1
    THEN _apply_flexible_and_logic(all_edges, criteria_config, h)
    ELSE IF Get(criteria_config, "strict_and_logic", FALSE)
    THEN _apply_strict_and_logic(all_edges, criteria_config, h)
    ELSE _apply_combination_logic(all_edges, criteria_config, h)

\* The four-way choice of policy made by both entry points
\* (use_and_logic: the OR result filtered to edge_type == 'combined').
CombineEdges(all_edges, criteria_config, use_and_logic, h) ==
    IF Get(criteria_config, "strict_and_logic", FALSE)
    THEN _apply_strict_and_logic(all_edges, criteria_config, h)
    ELSE IF Get(criteria_config, "min_criteria_required", 0) > 1
    THEN _apply_flexible_and_logic(all_edges, criteria_config, h)
    ELSE IF use_and_logic
    THEN KeepCombined(_apply_combination_logic(all_edges, criteria_config, h))
    ELSE _apply_combination_logic(all_edges, criteria_config, h)

\* Faulty variant of CleanValue: a list is joined by ',' instead of '|'.
CleanValueCommaJoined(value) ==
    IF IsList(value) THEN PyStr(Join(value.v, ","))
    ELSE IF value.t = "int" THEN PyStr(IntToStr(value.v))
    ELSE PyStr(value.v)

\* cleaned_edge_data: a list becomes its items joined by '|', anything else str()
CleanValue(value) ==
    IF IsList(value) THEN PyStr(Join(value.v, "|"))
    ELSE IF value.t = "int" THEN PyStr(IntToStr(value.v))
    ELSE PyStr(value.v)

CleanEdges(final_edges) ==
    [i \in 1..Len(final_edges) |->
        <<final_edges[i][1], final_edges[i][2],
          [key \in DOMAIN final_edges[i][3] |-> CleanValue(final_edges[i][3][key])]>>]

----------------------------------------------------------------------------
(* Entry points *)

ThresholdKeys == {"topic_threshold", "contributor_overlap_threshold",
                  "stargazer_overlap_threshold", "contributor_threshold",
                  "stargazer_threshold", "min_criteria_required"}

\* The order in which a request lists the keys of criteria_config.
ConfigKeyOrder == <<"topic_based_linking", "topic_threshold",
                    "contributor_overlap_enabled", "contributor_overlap_threshold",
                    "contributor_threshold", "shared_organization_enabled",
                    "common_stargazers_enabled", "stargazer_overlap_threshold",
                    "stargazer_threshold", "use_and_logic", "min_criteria_required",
                    "strict_and_logic">>

\* Python truthiness of a config value (a bool, or an int).
Truthy(criteria_config, k) ==
    IF k \in ThresholdKeys THEN criteria_config[k] # 0 ELSE criteria_config[k]

\* [k for k, v in criteria_config.items() if v and k not in excluded]
CriteriaUsed(criteria_config, excluded) ==
    SelectSeq(ConfigKeyOrder,
              LAMBDA k : /\ k \in DOMAIN criteria_config
                         /\ k \notin excluded
                         /\ Truthy(criteria_config, k))

\* Faulty variant of StatIf: the candidates are not counted.
StatIfNotCounted(enabled, name, edges) ==
    IF enabled THEN [k \in {name} |-> 0] ELSE EmptyDict

\* edge_stats[name] = len(edges), set only when the criterion is enabled
StatIf(enabled, name, edges) ==
    IF enabled THEN [k \in {name} |-> Len(edges)] ELSE EmptyDict

IfEnabled(enabled, edges) == IF enabled THEN edges ELSE <<>>

\* The tail shared by both entry points: combination, cleaning, add_edges_from
\* and the statistics record.
FinishRun(G, criteria_config, use_and_logic, excluded, topic_edges, contributor_edges, org_edges, stargazer_edges, flags, h) ==
    LET all_edges == IfEnabled(flags[1], topic_edges)
                       \o IfEnabled(flags[2], contributor_edges)
                       \o IfEnabled(flags[3], org_edges)
                       \o IfEnabled(flags[4], stargazer_edges)
        final_edges == CombineEdges(all_edges, criteria_config, use_and_logic, h)
        G1 == AddEdgesFrom(G, CleanEdges(final_edges))
        edge_stats ==
            Update(Update(Update(Update(
                StatIf(flags[1], "topic_based_edges", topic_edges),
                StatIf(flags[2], "contributor_overlap_edges", contributor_edges)),
                StatIf(flags[3], "shared_organization_edges", org_edges)),
                StatIf(flags[4], "stargazer_overlap_edges", stargazer_edges)),
                [total_edges |-> Cardinality(DOMAIN G1.edges),
                 total_nodes |-> Len(G1.nodes),
                 criteria_used |-> CriteriaUsed(criteria_config, excluded),
                 combination_logic_applied |-> TRUE])
    IN [G |-> G1, edge_stats |-> edge_stats, all_edges |-> all_edges,
        final_edges |-> final_edges, outcome |-> "returned"]

\* EdgeGenerationService.generate_edges_with_criteria; repos is what
\* _get_repos_for_topics returned for the request's topics.
generate_edges_with_criteria(repos, criteria_config, h) ==
    LET topic_based_linking == Get(criteria_config, "topic_based_linking", TRUE)
        contributor_overlap_enabled ==
            Get(criteria_config, "contributor_overlap_enabled", FALSE)
        contributor_overlap_threshold ==
            Get(criteria_config, "contributor_overlap_threshold", 2)
        shared_organization_enabled ==
            Get(criteria_config, "shared_organization_enabled", FALSE)
        common_stargazers_enabled ==
            Get(criteria_config, "common_stargazers_enabled", FALSE)
        stargazer_overlap_threshold ==
            Get(criteria_config, "stargazer_overlap_threshold", 2)
    IN IF repos = <<>>
       THEN [G |-> EmptyGraph, edge_stats |-> EmptyDict, all_edges |-> <<>>,
             final_edges |-> <<>>, outcome |-> "returned"]
       ELSE LET G == _add_nodes_to_graph(EmptyGraph, repos)
            IN FinishRun(G, criteria_config,
                         Get(criteria_config, "use_and_logic", FALSE), {},
                         _generate_topic_based_edges(G, h),
                         _generate_contributor_overlap_edges(
                             G, contributor_overlap_threshold, h),
                         _generate_shared_organization_edges(G.nodes),
                         _generate_stargazer_overlap_edges(
                             G, stargazer_overlap_threshold, h),
                         <<topic_based_linking, contributor_overlap_enabled,
                           shared_organization_enabled, common_stargazers_enabled>>,
                         h)

\* Faulty variant of NotEnoughNodes: only the empty graph is refused.
NotEnoughNodesOnlyEmpty(nodes) == Len(nodes) < 1

\* if len(nodes) < 2
NotEnoughNodes(nodes) == Len(nodes) < 2

\* Faulty variant of GraphAtValidation: the edges are removed before the
\* config is validated.
GraphAfterRemoval(G) == RemoveAllEdges(G)

\* The graph when create_edges_on_existing_graph raises ValueError: the
\* validation precedes remove_edges_from, nothing was touched.
GraphAtValidation(G) == G

\* An evaluator of the rebuild path reads the attribute of both nodes of a
\* pair and, when both values are truthy, splits or parses them: a value that
\* is not a str raises there.
AttributeRaises(G, nodes, attr) ==
    \E i \in 1..Len(OrderedPairs(nodes)) :
        LET value1 == Get(G.attrs[OrderedPairs(nodes)[i][1]], attr, <<>>)
            value2 == Get(G.attrs[OrderedPairs(nodes)[i][2]], attr, <<>>)
        IN value1 # <<>> /\ value2 # <<>> /\ ~(IsStr(value1) /\ IsStr(value2))

\* The exception that leaves create_edges_on_existing_graph while the enabled
\* evaluators run, in the order the code calls them; "none" when they complete.
RaisedByEvaluators(G, nodes, enabled) ==
    IF enabled[1] /\ AttributeRaises(G, nodes, "topics") THEN "TypeError"
    ELSE IF enabled[2] /\ AttributeRaises(G, nodes, "contributors") THEN "AttributeError"
    ELSE IF enabled[4] /\ AttributeRaises(G, nodes, "stargazers") THEN "AttributeError"
    ELSE "none"

\* EdgeGenerationService.create_edges_on_existing_graph
create_edges_on_existing_graph(G, criteria_config, h) ==
    LET topic_based_linking == Get(criteria_config, "topic_based_linking", FALSE)
        topic_threshold == Get(criteria_config, "topic_threshold", 2)
        contributor_overlap_enabled ==
            Get(criteria_config, "contributor_overlap_enabled", FALSE)
        contributor_threshold == Get(criteria_config, "contributor_threshold", 1)
        shared_organization_enabled ==
            Get(criteria_config, "shared_organization_enabled", FALSE)
        common_stargazers_enabled ==
            Get(criteria_config, "common_stargazers_enabled", FALSE)
        stargazer_threshold == Get(criteria_config, "stargazer_threshold", 5)
        use_and_logic == Get(criteria_config, "use_and_logic", FALSE)
        G0 == RemoveAllEdges(G)
        nodes == G0.nodes
    IN IF ~(topic_based_linking \/ contributor_overlap_enabled
              \/ shared_organization_enabled \/ common_stargazers_enabled)
       THEN [G |-> GraphAtValidation(G), edge_stats |-> EmptyDict, all_edges |-> <<>>,
             final_edges |-> <<>>, outcome |-> "ValueError"]
       ELSE IF NotEnoughNodes(nodes)
       THEN [G |-> G0,
             edge_stats |-> [message |-> "Not enough nodes to create edges"],
             all_edges |-> <<>>, final_edges |-> <<>>, outcome |-> "returned"]
       ELSE IF RaisedByEvaluators(G0, nodes,
                                  <<topic_based_linking, contributor_overlap_enabled,
                                    shared_organization_enabled,
                                    common_stargazers_enabled>>) # "none"
       THEN [G |-> G0, edge_stats |-> EmptyDict, all_edges |-> <<>>,
             final_edges |-> <<>>,
             outcome |-> RaisedByEvaluators(G0, nodes,
                                            <<topic_based_linking,
                                              contributor_overlap_enabled,
                                              shared_organization_enabled,
                                              common_stargazers_enabled>>)]
       ELSE FinishRun(G0, criteria_config, use_and_logic, {"use_and_logic"},
                      _generate_topic_based_edges_from_graph(G0, nodes, topic_threshold, h),
                      _generate_contributor_overlap_edges_from_graph(
                          G0, nodes, contributor_threshold, h),
                      _generate_shared_organization_edges_from_graph(nodes),
                      _generate_stargazer_overlap_edges_from_graph(
                          G0, nodes, stargazer_threshold, h),
                      <<topic_based_linking, contributor_overlap_enabled,
                        shared_organization_enabled, common_stargazers_enabled>>,
                      h)

----------------------------------------------------------------------------
(* Statistics reporters.  A float is the ratio [num, den] it is computed    *)
(* from.                                                                    *)

Ratio(n, d) == [num |-> n, den |-> d]

\* n / d * 100, the division first as the code computes it
Percent(n, d) == [num |-> n, den |-> d, times |-> 100]

\* sum(dict(G.degree()).values())
RECURSIVE SumDegrees(_, _)
SumDegrees(G, nodes) ==
    IF nodes = <<>> THEN 0
    ELSE Cardinality({e \in DOMAIN G.edges : nodes[1] \in e}) + SumDegrees(G, Tail(nodes))

\* The nodes reachable from the set S along the edges of G
RECURSIVE Component(_, _)
Component(G, S) ==
    LET T == S \cup {n \in SeqRange(G.nodes) :
                        \E e \in DOMAIN G.edges : n \in e /\ e \cap S # {}}
    IN IF T = S THEN S ELSE Component(G, T)

\* nx.number_connected_components(G)
number_connected_components(G) ==
    Cardinality({Component(G, {n}) : n \in SeqRange(G.nodes)})

\* nx.density(G): 0 without edges or with fewer than two nodes
density(G) ==
    LET n == Len(G.nodes)
        m == Cardinality(DOMAIN G.edges)
    IN IF m = 0 \/ n <= 1 THEN Ratio(0, 1) ELSE Ratio(2 * m, n * (n - 1))

\* The edge-type labels in the order of str comparison
LabelOrder == <<"combined", "contributor_overlap", "legacy", "shared_organization",
                "stargazer_overlap", "topic_based", "unknown">>

LabelLeq(s, t) ==
    LET rank(x) == CHOOSE i \in 1..Len(LabelOrder) : LabelOrder[i] = x
    IN IF s = <<>> THEN TRUE ELSE IF t = <<>> THEN FALSE ELSE rank(s[1]) <= rank(t[1])

RECURSIVE InsertSorted(_, _)
InsertSorted(x, sorted) ==
    IF sorted = <<>> THEN <<x>>
    ELSE IF LabelLeq(x, sorted[1]) THEN <<x>> \o sorted
    ELSE <<sorted[1]>> \o InsertSorted(x, Tail(sorted))

\* sorted(criteria_satisfied)
RECURSIVE Sorted(_)
Sorted(list) == IF list = <<>> THEN <<>> ELSE InsertSorted(list[1], Sorted(Tail(list)))

\* data.get('edge_type', 'unknown')
EdgeTypeOf(data) == Get(data, "edge_type", PyStr(<<"unknown">>)).v

\* edge_types: the number of edges of every edge type present
EdgeTypeBreakdown(G) ==
    [t \in {EdgeTypeOf(G.edges[e]) : e \in DOMAIN G.edges} |->
        Cardinality({e \in DOMAIN G.edges : EdgeTypeOf(G.edges[e]) = t})]

\* The criteria key without sorted(): the criteria in the order stored.
CriteriaKeyAsStored(data) ==
    LET criteria_satisfied == Get(data, "criteria_satisfied", PyList(<<>>))
    IN IF IsList(criteria_satisfied)
       THEN Join(criteria_satisfied.v, "|")
       ELSE criteria_satisfied.v

\* criteria_satisfied = data.get('criteria_satisfied', []), split on '|' when
\* it is a str; criteria_key = '|'.join(sorted(criteria_satisfied))
CriteriaKey(data) ==
    LET criteria_satisfied == Get(data, "criteria_satisfied", PyList(<<>>))
    IN Join(Sorted(IF IsList(criteria_satisfied)
                   THEN criteria_satisfied.v
                   ELSE Split(criteria_satisfied.v, "|")), "|")

\* combined_edges: the number of combined edges of every criteria key
CombinedEdgeBreakdown(G) ==
    LET combined == {e \in DOMAIN G.edges : EdgeTypeOf(G.edges[e]) = <<"combined">>}
    IN [key \in {CriteriaKey(G.edges[e]) : e \in combined} |->
           Cardinality({e \in combined : CriteriaKey(G.edges[e]) = key})]

\* EdgeGenerationService.get_detailed_edge_statistics
get_detailed_edge_statistics(G) ==
    IF DOMAIN G.edges = {}
    THEN [message |-> "No edges generated"]
    ELSE LET total_edges == Cardinality(DOMAIN G.edges)
             total_nodes == Len(G.nodes)
             edge_types == EdgeTypeBreakdown(G)
         IN [total_nodes |-> total_nodes,
             total_edges |-> total_edges,
             edge_type_breakdown |-> edge_types,
             combined_edge_breakdown |-> CombinedEdgeBreakdown(G),
             average_degree |->
                 IF total_nodes > 0 THEN Ratio(SumDegrees(G, G.nodes), total_nodes)
                 ELSE Ratio(0, 1),
             connected_components |-> number_connected_components(G),
             density |-> density(G),
             percentage_combined |->
                 IF total_edges > 0
                 THEN Percent(Get(edge_types, <<"combined">>, 0), total_edges)
                 ELSE Percent(0, 1)]

\* EdgeGenerationService.get_edge_statistics
get_edge_statistics(G) ==
    IF DOMAIN G.edges = {}
    THEN [message |-> "No edges generated"]
    ELSE [total_nodes |-> Len(G.nodes),
          total_edges |-> Cardinality(DOMAIN G.edges),
          edge_types |-> EdgeTypeBreakdown(G),
          average_degree |->
              IF G.nodes # <<>> THEN Ratio(SumDegrees(G, G.nodes), Len(G.nodes))
              ELSE Ratio(0, 1),
          connected_components |-> number_connected_components(G),
          density |-> density(G)]

----------------------------------------------------------------------------
(* The rebuild endpoint *)

\* No engine run: what a request that is refused, or fails, leaves behind.
NoRun(G, outcome) ==
    [G |-> G, edge_stats |-> EmptyDict, all_edges |-> <<>>, final_edges |-> <<>>,
     outcome |-> outcome]

\* A call edge_service.create_edges_on_existing_graph(*args): the method is
\* declared (self, G, criteria_config), so any number of positional arguments
\* other than two raises TypeError before its body runs.
CallCreateEdgesOnExistingGraph(args, h) ==
    IF Len(args) = 2
    THEN create_edges_on_existing_graph(args[1], args[2], h)
    ELSE NoRun(args[1], "TypeError")

\* save_graph_with_edges, lines 973-982: a list left on an edge is joined by
\* '|' before the file is written.
SavedValue(key, value) ==
    IF key \in {"shared_topics", "shared_contributors", "shared_stargazers",
                "criteria_satisfied"} /\ IsList(value)
    THEN PyStr(Join(value.v, "|"))
    ELSE value

\* EdgeGenerationService.save_graph_with_edges: the graph the call leaves
save_graph_with_edges(G) ==
    [G EXCEPT !.edges = [e \in DOMAIN G.edges |->
                            [key \in DOMAIN G.edges[e] |->
                                SavedValue(key, G.edges[e][key])]]]

\* main.py 665-672: the graph is saved and the reporter is called on it.
AnswerRebuilt(run, saved) ==
    [status |-> 200,
     graph_statistics |-> get_detailed_edge_statistics(saved),
     run |-> [run EXCEPT !.G = saved]]

\* main.py 648-688: the answer to a request whose call of the engine ended
\* as run did (the graph saved and its statistics, or the handler of the
\* exception).
Answer(run) ==
    IF run.outcome = "returned"
    THEN AnswerRebuilt(run, save_graph_with_edges(run.G))
    ELSE [status |-> 500, graph_statistics |-> EmptyDict, run |-> run]

\* main.create_edges_on_graph (POST /api/create-edges-on-graph), G being the
\* graph read from gexfContent and filtered_node_ids the request's list, or
\* None when the request has none.
create_edges_on_graph(G, criteria_config, filtered_node_ids, h) ==
    IF G.nodes = <<>>
    THEN [status |-> 404, graph_statistics |-> EmptyDict, run |-> NoRun(G, "returned")]
    ELSE IF ~(\/ Get(criteria_config, "topic_based_linking", FALSE)
              \/ Get(criteria_config, "contributor_overlap_enabled", FALSE)
              \/ Get(criteria_config, "shared_organization_enabled", FALSE)
              \/ Get(criteria_config, "common_stargazers_enabled", FALSE))
    THEN [status |-> 400, graph_statistics |-> EmptyDict, run |-> NoRun(G, "returned")]
    ELSE Answer(CallCreateEdgesOnExistingGraph(
                    <<G, criteria_config, filtered_node_ids>>, h))

\* main.py 389-404: the graph is saved and the reporter is called on it.
AnswerSaved(run, saved) ==
    [status |-> 200,
     graph_statistics |-> get_detailed_edge_statistics(saved),
     run |-> [run EXCEPT !.G = saved]]

\* main.py 362-412: the answer to a request whose call of the engine ended as
\* run did.
AnswerGenerated(run) ==
    IF run.outcome # "returned"
    THEN [status |-> 500, graph_statistics |-> EmptyDict, run |-> run]
    ELSE IF run.G.nodes = <<>>
    THEN [status |-> 404, graph_statistics |-> EmptyDict, run |-> run]
    ELSE AnswerSaved(run, save_graph_with_edges(run.G))

\* main.generate_graph_with_edges (POST /api/generate-graph-with-edges),
\* topics being the request's list and repos what the corpus accessor
\* returns for it.
generate_graph_with_edges(topics, repos, criteria_config, h) ==
    IF topics = <<>>
    THEN [status |-> 400, graph_statistics |-> EmptyDict,
          run |-> NoRun(EmptyGraph, "returned")]
    ELSE AnswerGenerated(generate_edges_with_criteria(repos, criteria_config, h))

----------------------------------------------------------------------------
(* Inputs: the corpus answers and the criteria configs the requests carry.  *)

MaxThreshold == 2
MaxMinCriteria == 3
MaxRepos == 3

Prefix(q, n) == SubSeq(q, 1, n)

\* Names of owners, repositories, topics, contributors and stargazers are
\* single characters.
Str1(c) == <<c>>
Id(owner, name) == <<owner, "/", name>>

R0 == [nameWithOwner |-> Id("a", "x"),
       topics |-> RawStr(<<"m", "|", "d">>),
       bigquery_contributors |-> RawList(<<Str1("u"), Str1("v")>>),
       bigquery_stargazers |-> RawList(<<Str1("s"), Str1("t")>>)]

\* A second repository that has, or has not, the topics, the contributors
\* and the stargazers of R0 (listed in another order and another encoding).
Second(id, t, c, s) ==
    [nameWithOwner |-> id,
     topics |-> IF t THEN RawStr(<<"d", "|", "m">>) ELSE RawNone,
     bigquery_contributors |->
         IF c THEN RawList(<<Str1("v"), Str1("u")>>) ELSE RawList(<<>>),
     bigquery_stargazers |->
         IF s THEN RawStr(<<"[", "t", ",", "s", "]">>) ELSE RawNone]

SecondIds == {Id("a", "y"), Id("b", "y")}

PairCorpora ==
    {<<R0, Second(id, t, c, s)>> :
        id \in SecondIds, t \in BOOLEAN, c \in BOOLEAN, s \in BOOLEAN}

\* Corpus lines: repositories that share exactly one name, empty topic
\* tokens, quoted and padded list text, identifiers with no owner part.
LineA ==
    << [nameWithOwner |-> Id("a", "x"),
        topics |-> RawStr(<<"m", "|", "d", "|">>),
        bigquery_contributors |-> RawList(<<Str1("u"), Str1("v")>>),
        bigquery_stargazers |-> RawList(<<Str1("s"), Str1("t")>>)],
       [nameWithOwner |-> Id("b", "z"),
        topics |-> RawStr(<<"|", "m">>),
        bigquery_contributors |->
            RawStr(<<"[", "'", "u", "'", ",", " ", "'", "v", "'", "]">>),
        bigquery_stargazers |-> RawList(<<Str1("s")>>)],
       [nameWithOwner |-> <<"w">>,
        topics |-> RawStr(<<"d", "|">>),
        bigquery_contributors |-> RawStr(<<"u", ",", "v">>),
        bigquery_stargazers |-> RawNone],
       [nameWithOwner |-> <<"/", "c">>,
        topics |-> RawStr(<<"m", "|", "d">>),
        bigquery_contributors |-> RawList(<<Str1("v")>>),
        bigquery_stargazers |-> RawList(<<Str1("t"), Str1("s")>>)],
       [nameWithOwner |-> Id("b", "b"),
        topics |-> RawStr(<<"c">>),
        bigquery_contributors |-> RawList(<<Str1("w")>>),
        bigquery_stargazers |-> RawList(<<Str1("z")>>)] >>

LineB ==
    << [nameWithOwner |-> Id("a", "x"),
        topics |-> RawStr(<<"m">>),
        bigquery_contributors |-> RawList(<<Str1("u")>>),
        bigquery_stargazers |-> RawList(<<Str1("s")>>)],
       [nameWithOwner |-> Id("a", "y"),
        topics |-> RawStr(<<"m", "|", "d">>),
        bigquery_contributors |-> RawList(<<Str1("u"), Str1("v")>>),
        bigquery_stargazers |-> RawStr(<<"[", "s", ",", " ", "t", "]">>)],
       [nameWithOwner |-> Id("a", "z"),
        topics |-> RawStr(<<"d">>),
        bigquery_contributors |-> RawStr(<<"[", "v", "]">>),
        bigquery_stargazers |-> RawList(<<Str1("t")>>)],
       [nameWithOwner |-> Id("b", "c"),
        topics |-> RawStr(<<"d", "|", "m">>),
        bigquery_contributors |-> RawList(<<Str1("v"), Str1("u")>>),
        bigquery_stargazers |-> RawList(<<Str1("t"), Str1("s")>>)],
       [nameWithOwner |-> Id("b", "d"),
        topics |-> RawStr(<<"m">>),
        bigquery_contributors |-> RawList(<<Str1("u")>>),
        bigquery_stargazers |-> RawNone] >>

\* A repository of one topic, one contributor and one stargazer
Single(id) ==
    [nameWithOwner |-> id,
     topics |-> RawStr(<<"m">>),
     bigquery_contributors |-> RawList(<<Str1("u")>>),
     bigquery_stargazers |-> RawList(<<Str1("s")>>)]

\* Identifiers with an empty owner part, with no '/', and with two '/'.
OrgCorpora ==
    {<<Single(<<"/", "c">>), Single(<<"/", "d">>), Single(<<"w">>)>>,
     <<Single(<<"a", "/", "b", "/", "c">>), Single(Id("a", "d")), Single(Id("b", "a"))>>}

\* A first repository whose contributors value is a number, next to a second
\* one with and without contributors.
NumberCorpora ==
    {<<[R0 EXCEPT !.bigquery_contributors = RawInt], Second(Id("a", "y"), TRUE, c, TRUE)>> :
        c \in BOOLEAN}

\* A repository that the corpus query returns in two rows (one per row of
\* its topics table), the rows differing in their topics.
RepeatedRowCorpus ==
    <<[Single(Id("a", "x")) EXCEPT !.topics = RawStr(<<"m", "|", "d">>)],
      [Single(Id("a", "y")) EXCEPT !.topics = RawStr(<<"d", "|", "m">>)],
      Single(Id("a", "x"))>>

\* Two repositories of different owners that share three topics, which they
\* list in opposite orders, and nothing else.
TripleCorpus ==
    <<[R0 EXCEPT !.topics = RawStr(<<"a", "|", "b", "|", "c">>)],
      [Second(Id("b", "y"), FALSE, FALSE, FALSE) EXCEPT
          !.topics = RawStr(<<"c", "|", "b", "|", "a">>)]>>

Corpora ==
    {<<>>, <<R0>>, RepeatedRowCorpus, TripleCorpus}
    \cup PairCorpora \cup OrgCorpora \cup NumberCorpora
    \cup {Prefix(line, n) : line \in {LineA, LineB}, n \in 3..MaxRepos}

TopicFlagDicts ==
    {EmptyDict} \cup {[k \in {"topic_based_linking"} |-> b] : b \in BOOLEAN}

ThresholdDicts ==
    {EmptyDict}
    \cup {[topic_threshold |-> t, contributor_overlap_threshold |-> t,
           stargazer_overlap_threshold |-> t] : t \in 1..MaxThreshold}
    \cup {[topic_threshold |-> t, contributor_threshold |-> t,
           stargazer_threshold |-> t] : t \in 1..MaxThreshold}

Configs ==
    {EmptyDict}
    \cup {Update(Update(tf, th),
                 [contributor_overlap_enabled |-> c,
                  shared_organization_enabled |-> o,
                  common_stargazers_enabled |-> s,
                  use_and_logic |-> u,
                  min_criteria_required |-> m,
                  strict_and_logic |-> st]) :
            tf \in TopicFlagDicts, th \in ThresholdDicts,
            c \in BOOLEAN, o \in BOOLEAN, s \in BOOLEAN, u \in BOOLEAN,
            st \in BOOLEAN, m \in 0..MaxMinCriteria}

\* The configs of the requests made to the rebuild endpoint: none, and those
\* that enable topic linking with thresholds 1, alone or with the three other
\* criteria, under each combination policy.
RebuildConfigs ==
    {EmptyDict}
    \cup {cfg \in Configs :
            /\ {"topic_based_linking", "contributor_threshold"} \subseteq DOMAIN cfg
            /\ cfg.topic_based_linking
            /\ cfg.contributor_threshold = 1
            /\ cfg.contributor_overlap_enabled = cfg.common_stargazers_enabled
            /\ cfg.contributor_overlap_enabled = cfg.shared_organization_enabled
            /\ cfg.min_criteria_required \in {0, 2}
            /\ ~(cfg.use_and_logic /\ cfg.strict_and_logic)}

\* The fields an evaluator or the merge fills with list(a_set)
ListKeys == <<"shared_topics", "shared_contributors", "organization",
              "shared_stargazers">>

\* The calls of list(a_set) that stage made for edges and that listed more
\* than one element, in the order of the run, each with the size of its set.
RECURSIVE Listings(_, _)
Listings(stage, edges) ==
    IF edges = <<>> THEN <<>>
    ELSE LET e == edges[1]
             keys == SelectSeq(ListKeys,
                               LAMBDA key : /\ key \in DOMAIN e[3]
                                            /\ IsList(e[3][key])
                                            /\ Len(e[3][key].v) > 1)
         IN [k \in 1..Len(keys) |->
                [site |-> <<stage, keys[k], e[1], e[2]>>,
                 size |-> Len(e[3][keys[k]].v)]]
            \o Listings(stage, Tail(edges))

\* The merged edges among final_edges
MergedEdges(final_edges) ==
    SelectSeq(final_edges, LAMBDA e : EdgeTypeOrType(e[3]) = <<"combined">>
                                      /\ "criteria_satisfied" \in DOMAIN e[3])

\* The size of the largest set among the calls open (1 when there is none)
RECURSIVE MaxSize(_)
MaxSize(open) ==
    IF open = <<>> THEN 1
    ELSE LET rest == MaxSize(Tail(open))
         IN IF open[1].size > rest THEN open[1].size ELSE rest

\* topics of a request: none, or one topic
RequestTopics == {<<>>, <<<<"m">>>>}

\* Every order of each of the calls open can produce
OrdersOf(open) ==
    {h \in [{open[k].site : k \in 1..Len(open)} ->
               0..(Factorial(MaxSize(open)) - 1)] :
        \A k \in 1..Len(open) : h[open[k].site] < Factorial(open[k].size)}

\* The orders the calls of list(a_set) of a run can produce, run being the
\* run with every set listed ascending (which calls are made, and on which
\* sets, does not depend on the orders): every order of each of the calls
\* that list more than one element.
ListingOrders(run) ==
    OrdersOf(Listings("evaluate", run.all_edges)
               \o Listings("merge", MergedEdges(run.final_edges)))

\* A graph as a client uploads it: the nodes of the corpus, every pair
\* joined by an edge left over from an earlier run (read_gexf gives every
\* edge an id attribute).
LegacyEdge == [edge_type |-> PyStr(<<"legacy">>), id |-> PyStr(<<"0">>)]

\* The attributes of an uploaded node: the graph file declares contributors
\* as integer where the corpus holds a number, and the reader yields an int.
RECURSIVE TypedAttributes(_, _)
TypedAttributes(attrs, repos) ==
    IF repos = <<>> THEN attrs
    ELSE LET repo == Head(repos)
             id == repo.nameWithOwner
         IN TypedAttributes(
                IF repo.bigquery_contributors.kind = "int"
                THEN [attrs EXCEPT ![id] = Update(attrs[id], [contributors |-> NotAStr])]
                ELSE attrs,
                Tail(repos))

UploadedGraph(repos) ==
    LET G == _add_nodes_to_graph(EmptyGraph, repos)
        ids == SeqRange(G.nodes)
    IN [G EXCEPT !.attrs = TypedAttributes(G.attrs, repos),
                 !.edges = [key \in {{a, b} : a \in ids, b \in ids} \ {{a} : a \in ids}
                              |-> LegacyEdge]]

\* What a rebuild request carries as filtered_node_ids: nothing, the first
\* node of the graph, or all of its nodes.
FilterChoices(nodes) ==
    {RawNone, RawList(nodes)} \cup {RawList(<<nodes[i]>>) : i \in {1} \cap DOMAIN nodes}

----------------------------------------------------------------------------
(* State *)

VARIABLES
    repos,            \* what the corpus accessor returns for the request
    G,                \* the request's graph value
    criteria_config,  \* the config of the request being served
    orders,           \* the order each list(a_set) call of the request produced
    entry,            \* the entry point that ran ("none" before a request)
    outcome,          \* "none", "returned" or the exception raised
    edge_stats,       \* the statistics record returned
    all_edges,        \* the candidate edges of the run
    final_edges,      \* the final edges of the run, before cleaning
    graph_stats,      \* what the statistics reporter says of the resulting graph
    filtered_node_ids, \* the node filter of a request to the rebuild endpoint
    status,           \* the HTTP status the rebuild endpoint answered (0: no answer)
    calls,            \* concurrent requests: what each carries
    pc,               \* concurrent requests: the position of each in the code
    heap,             \* concurrent requests: the graph object of each
    frames,           \* concurrent requests: the local variables of each engine call
    returned,         \* concurrent requests: what each was answered
    con               \* concurrent requests: the result held by the shared connection

invocations == <<calls, pc, heap, frames, returned, con>>

vars == <<repos, G, criteria_config, orders, entry, outcome, edge_stats,
          all_edges, final_edges, graph_stats, filtered_node_ids, status,
          invocations>>

\* No concurrent invocation is in progress.
NoInvocations ==
    /\ calls = <<>>
    /\ pc = <<>>
    /\ heap = <<>>
    /\ frames = <<>>
    /\ returned = <<>>
    /\ con = <<>>

Init ==
    /\ repos \in Corpora
    /\ G = UploadedGraph(repos)
    /\ criteria_config = EmptyDict
    /\ orders = NoListing
    /\ entry = "none"
    /\ outcome = "none"
    /\ edge_stats = EmptyDict
    /\ all_edges = <<>>
    /\ final_edges = <<>>
    /\ graph_stats = EmptyDict
    /\ filtered_node_ids = RawNone
    /\ status = 0
    /\ NoInvocations

Return(cfg, h, name, r) ==
    /\ criteria_config' = cfg
    /\ orders' = h
    /\ entry' = name
    /\ G' = r.G
    /\ edge_stats' = r.edge_stats
    /\ all_edges' = r.all_edges
    /\ final_edges' = r.final_edges
    /\ outcome' = r.outcome
    /\ graph_stats' = IF r.outcome = "returned"
                      THEN get_detailed_edge_statistics(r.G)
                      ELSE EmptyDict
    /\ UNCHANGED <<repos, filtered_node_ids, status, invocations>>

\* create_edges_on_existing_graph(G, criteria_config), then the reporter
CreateEdgesOnExistingGraph ==
    /\ entry = "none"
    /\ \E cfg \in Configs :
          \E h \in ListingOrders(create_edges_on_existing_graph(G, cfg, NoListing)) :
              Return(cfg, h, "create_edges_on_existing_graph",
                     create_edges_on_existing_graph(G, cfg, h))

\* An endpoint answers the request (cfg, f) with response; name is the
\* engine's entry point when the request reached it, the handler otherwise.
Respond(name, cfg, f, h, response) ==
    /\ criteria_config' = cfg
    /\ filtered_node_ids' = f
    /\ orders' = h
    /\ entry' = name
    /\ status' = response.status
    /\ G' = response.run.G
    /\ edge_stats' = response.run.edge_stats
    /\ all_edges' = response.run.all_edges
    /\ final_edges' = response.run.final_edges
    /\ outcome' = response.run.outcome
    /\ graph_stats' = response.graph_statistics
    /\ UNCHANGED <<repos, invocations>>

\* POST /api/generate-graph-with-edges
GenerateEdgesWithCriteria ==
    /\ entry = "none"
    /\ \E topics \in RequestTopics : \E cfg \in Configs :
          \E h \in ListingOrders(
                     generate_graph_with_edges(topics, repos, cfg, NoListing).run) :
              Respond(IF topics = <<>> THEN "generate_graph_with_edges"
                      ELSE "generate_edges_with_criteria",
                      cfg, RawNone, h,
                      generate_graph_with_edges(topics, repos, cfg, h))

\* POST /api/create-edges-on-graph
CreateEdgesOnGraph ==
    /\ entry = "none"
    /\ \E cfg \in RebuildConfigs : \E f \in FilterChoices(G.nodes) :
          \E h \in ListingOrders(create_edges_on_graph(G, cfg, f, NoListing).run) :
              Respond("create_edges_on_graph", cfg, f, h,
                      create_edges_on_graph(G, cfg, f, h))

\* The request is answered; the next one brings its own graph value.
NextRequest ==
    /\ entry # "none"
    /\ entry' = "none"
    /\ outcome' = "none"
    /\ criteria_config' = EmptyDict
    /\ G' = UploadedGraph(repos)
    /\ edge_stats' = EmptyDict
    /\ all_edges' = <<>>
    /\ final_edges' = <<>>
    /\ graph_stats' = EmptyDict
    /\ filtered_node_ids' = RawNone
    /\ status' = 0
    /\ orders' = NoListing
    /\ UNCHANGED <<repos, invocations>>

Next ==
    \/ GenerateEdgesWithCriteria
    \/ CreateEdgesOnExistingGraph
    \/ CreateEdgesOnGraph
    \/ NextRequest

Spec == Init /\ [][Next]_vars

----------------------------------------------------------------------------
(* Two requests served concurrently by two threads of the server process.   *)
(* A request to /api/generate-graph-with-edges calls                        *)
(* generate_edges_with_criteria on the service instance created when the    *)
(* module is loaded, whose database connection all requests share; a        *)
(* request to /api/create-edges-on-graph calls                              *)
(* create_edges_on_existing_graph on the graph it uploaded.  A step is one  *)
(* block of the code; the blocks of the two requests interleave freely.     *)

Threads == {1, 2}

\* The rows the database holds for the topics of the concurrent requests,
\* which are also the nodes of the graphs they upload.
ConcurrentCorpora ==
    {<<R0>>, <<R0, Second(Id("a", "y"), TRUE, FALSE, FALSE)>>, Prefix(LineA, MaxRepos)}

\* The configs of the concurrent requests: none, topic linking alone, and
\* the four criteria under the use_and_logic policy.
ConcurrentConfigs ==
    {cfg \in RebuildConfigs :
        cfg # EmptyDict =>
            /\ ~cfg.strict_and_logic
            /\ cfg.min_criteria_required = 0
            /\ cfg.use_and_logic = cfg.contributor_overlap_enabled}

\* The concurrent requests: to the generate endpoint with topics, and to the
\* rebuild endpoint with an uploaded graph and no node filter.
ConcurrentRequests ==
    [endpoint : {"generate", "rebuild"}, corpus : ConcurrentCorpora,
     criteria_config : ConcurrentConfigs]

\* The result the shared connection holds: the rows of the statement last
\* executed, whether a fetch has consumed them, and the thread that executed
\* it (0: the statements of __init__, which give no rows).
NoResult == [rows |-> <<>>, open |-> TRUE, by |-> 0]

\* The local variables of a call that has not bound its arguments yet.
NewFrame ==
    [criteria_config |-> EmptyDict, repos |-> <<>>, read_from |-> 0,
     edge_stats |-> EmptyDict, all_edges |-> <<>>, final_edges |-> <<>>,
     orders |-> NoListing, outcome |-> "returned"]

NotReturned == [status |-> 0, edge_stats |-> EmptyDict, graph_statistics |-> EmptyDict]

ConcurrentInit ==
    /\ orders = NoListing
    /\ calls \in [Threads -> ConcurrentRequests]
    /\ pc = [t \in Threads |-> "call"]
    /\ heap = [t \in Threads |-> EmptyGraph]
    /\ frames = [t \in Threads |-> NewFrame]
    /\ returned = [t \in Threads |-> NotReturned]
    /\ con = NoResult
    /\ repos = <<>>
    /\ G = EmptyGraph
    /\ criteria_config = EmptyDict
    /\ entry = "none"
    /\ outcome = "none"
    /\ edge_stats = EmptyDict
    /\ all_edges = <<>>
    /\ final_edges = <<>>
    /\ graph_stats = EmptyDict
    /\ filtered_node_ids = RawNone
    /\ status = 0

request == <<repos, G, criteria_config, orders, entry, outcome, edge_stats,
             all_edges, final_edges, graph_stats, filtered_node_ids, status>>

\* What the handler answers: the status, and the statistics of the body.
Answered(response) ==
    [status |-> response.status, edge_stats |-> response.run.edge_stats,
     graph_statistics |-> response.graph_statistics]

\* The handler of thread t reads its request.  A generate request (it names
\* topics) calls the engine, which binds its arguments and reads the flags
\* (lines 48-53); a rebuild request reads the uploaded graph (main.py 593-618).
Call(t) ==
    /\ pc[t] = "call"
    /\ IF calls[t].endpoint = "generate"
       THEN /\ frames' = [frames EXCEPT ![t].criteria_config = calls[t].criteria_config]
            /\ pc' = [pc EXCEPT ![t] = "execute"]
            /\ UNCHANGED heap
       ELSE /\ heap' = [heap EXCEPT ![t] = UploadedGraph(calls[t].corpus)]
            /\ pc' = [pc EXCEPT ![t] = "rebuild"]
            /\ UNCHANGED frames
    /\ UNCHANGED <<request, calls, returned, con>>

\* main.py 620-688: the rest of the rebuild handler, on the graph of its own
\* request and a service instance of its own.
CreateEdgesOnGraphOf(t) ==
    /\ pc[t] = "rebuild"
    /\ returned' = [returned EXCEPT ![t] =
           Answered(create_edges_on_graph(heap[t], calls[t].criteria_config,
                                          RawNone, NoListing))]
    /\ pc' = [pc EXCEPT ![t] = "done"]
    /\ UNCHANGED <<request, calls, heap, frames, con>>

\* line 321, self.con.execute(query): the connection holds the result of the
\* statement of thread t, replacing the result it held.
Execute(t) ==
    /\ pc[t] = "execute"
    /\ con' = [rows |-> calls[t].corpus, open |-> TRUE, by |-> t]
    /\ pc' = [pc EXCEPT ![t] = "fetchall"]
    /\ UNCHANGED <<request, calls, heap, frames, returned>>

\* What fetchall() can give on the result c the connection holds.  The
\* connection is one object used by both threads without a cursor of their
\* own, which the database library does not support: a result nobody has
\* fetched yields its rows, whoever executed its statement; a result already
\* fetched yields no rows, or the library raises.
FetchOutcomes(c) ==
    IF c.open THEN {[raised |-> FALSE, rows |-> c.rows]}
    ELSE {[raised |-> FALSE, rows |-> <<>>], [raised |-> TRUE, rows |-> <<>>]}

\* line 321, .fetchall(), and lines 56-58: the rows become repos; without
\* rows the engine returns an empty graph and empty statistics.
Fetchall(t) ==
    /\ pc[t] = "fetchall"
    /\ \E fetched \in FetchOutcomes(con) :
          /\ frames' = [frames EXCEPT
                 ![t].repos = fetched.rows,
                 ![t].read_from = con.by,
                 ![t].outcome = IF fetched.raised THEN "InvalidInputException"
                                ELSE "returned"]
          /\ pc' = [pc EXCEPT ![t] = IF fetched.raised \/ fetched.rows = <<>>
                                     THEN "answer" ELSE "add_nodes"]
    /\ con' = [con EXCEPT !.open = FALSE]
    /\ UNCHANGED <<request, calls, heap, returned>>

\* lines 61-62: G = nx.Graph(); self._add_nodes_to_graph(G, repos)
AddNodes(t) ==
    /\ pc[t] = "add_nodes"
    /\ heap' = [heap EXCEPT ![t] = _add_nodes_to_graph(EmptyGraph, frames[t].repos)]
    /\ pc' = [pc EXCEPT ![t] = "evaluate"]
    /\ UNCHANGED <<request, calls, frames, returned, con>>

\* lines 65-91: what the enabled evaluators give on the graph, their sets
\* listed in the orders h
Candidates(graph, cfg, h) ==
    LET topic_edges == _generate_topic_based_edges(graph, h)
        contributor_edges ==
            _generate_contributor_overlap_edges(
                graph, Get(cfg, "contributor_overlap_threshold", 2), h)
        org_edges == _generate_shared_organization_edges(graph.nodes)
        stargazer_edges ==
            _generate_stargazer_overlap_edges(
                graph, Get(cfg, "stargazer_overlap_threshold", 2), h)
        topic_based_linking == Get(cfg, "topic_based_linking", TRUE)
        contributor_overlap_enabled == Get(cfg, "contributor_overlap_enabled", FALSE)
        shared_organization_enabled == Get(cfg, "shared_organization_enabled", FALSE)
        common_stargazers_enabled == Get(cfg, "common_stargazers_enabled", FALSE)
    IN [edge_stats |->
            Update(Update(Update(
                StatIf(topic_based_linking, "topic_based_edges", topic_edges),
                StatIf(contributor_overlap_enabled, "contributor_overlap_edges",
                       contributor_edges)),
                StatIf(shared_organization_enabled, "shared_organization_edges",
                       org_edges)),
                StatIf(common_stargazers_enabled, "stargazer_overlap_edges",
                       stargazer_edges)),
        all_edges |->
            IfEnabled(topic_based_linking, topic_edges)
            \o IfEnabled(contributor_overlap_enabled, contributor_edges)
            \o IfEnabled(shared_organization_enabled, org_edges)
            \o IfEnabled(common_stargazers_enabled, stargazer_edges)]

\* The step of thread t: the evaluators fill edge_stats and all_edges.
Evaluate(t) ==
    /\ pc[t] = "evaluate"
    /\ \E h \in OrdersOf(Listings("evaluate",
                 Candidates(heap[t], frames[t].criteria_config, NoListing).all_edges)) :
          frames' = [frames EXCEPT
              ![t].orders = h,
              ![t].edge_stats = Candidates(heap[t], frames[t].criteria_config, h).edge_stats,
              ![t].all_edges = Candidates(heap[t], frames[t].criteria_config, h).all_edges]
    /\ pc' = [pc EXCEPT ![t] = "combine"]
    /\ UNCHANGED <<request, calls, heap, returned, con>>

\* The orders a run can produce that agree with h on the calls already made
Extending(h, all_orders) ==
    {h2 \in all_orders : \A site \in DOMAIN h : site \in DOMAIN h2 /\ h2[site] = h[site]}

\* lines 95-117: the combination policy gives final_edges
Combine(t) ==
    /\ pc[t] = "combine"
    /\ \E h \in Extending(frames[t].orders,
                          ListingOrders(
                              [all_edges |-> frames[t].all_edges,
                               final_edges |->
                                   CombineEdges(frames[t].all_edges,
                                                frames[t].criteria_config,
                                                Get(frames[t].criteria_config,
                                                    "use_and_logic", FALSE),
                                                NoListing)])) :
          frames' = [frames EXCEPT
              ![t].orders = h,
              ![t].final_edges =
                  CombineEdges(frames[t].all_edges, frames[t].criteria_config,
                               Get(frames[t].criteria_config, "use_and_logic", FALSE), h)]
    /\ pc' = [pc EXCEPT ![t] = "add_edges"]
    /\ UNCHANGED <<request, calls, heap, returned, con>>

\* lines 121-140: the cleaned final edges are added to the graph
AddEdges(t) ==
    /\ pc[t] = "add_edges"
    /\ heap' = [heap EXCEPT ![t] =
                   AddEdgesFrom(heap[t], CleanEdges(frames[t].final_edges))]
    /\ pc' = [pc EXCEPT ![t] = "statistics"]
    /\ UNCHANGED <<request, calls, frames, returned, con>>

\* lines 143-149: the totals complete edge_stats, which is returned
ReturnStatistics(t) ==
    /\ pc[t] = "statistics"
    /\ frames' = [frames EXCEPT ![t].edge_stats =
           Update(frames[t].edge_stats,
                  [total_edges |-> Cardinality(DOMAIN heap[t].edges),
                   total_nodes |-> Len(heap[t].nodes),
                   criteria_used |-> CriteriaUsed(frames[t].criteria_config, {}),
                   combination_logic_applied |-> TRUE])]
    /\ pc' = [pc EXCEPT ![t] = "answer"]
    /\ UNCHANGED <<request, calls, heap, returned, con>>

\* What the engine call of thread t gave its handler
RunOf(t) ==
    [G |-> heap[t], edge_stats |-> frames[t].edge_stats,
     all_edges |-> frames[t].all_edges, final_edges |-> frames[t].final_edges,
     outcome |-> frames[t].outcome]

\* main.py 364-413: the generate handler answers
AnswerRequest(t) ==
    /\ pc[t] = "answer"
    /\ heap' = [heap EXCEPT ![t] = AnswerGenerated(RunOf(t)).run.G]
    /\ returned' = [returned EXCEPT ![t] = Answered(AnswerGenerated(RunOf(t)))]
    /\ pc' = [pc EXCEPT ![t] = "done"]
    /\ UNCHANGED <<request, calls, frames, con>>

ConcurrentNext ==
    \E t \in Threads :
        \/ Call(t)
        \/ CreateEdgesOnGraphOf(t)
        \/ Execute(t)
        \/ Fetchall(t)
        \/ AddNodes(t)
        \/ Evaluate(t)
        \/ Combine(t)
        \/ AddEdges(t)
        \/ ReturnStatistics(t)
        \/ AnswerRequest(t)

ConcurrentSpec == ConcurrentInit /\ [][ConcurrentNext]_vars

----------------------------------------------------------------------------
(* Vocabulary of the properties.  The criterion predicates are those of the *)
(* specification (section 4.1), evaluated on the node attributes of the     *)
(* graph, independently of the evaluators above.                            *)

Generate == "generate_edges_with_criteria"
Create == "create_edges_on_existing_graph"

Topic == <<"topic_based">>
Contributor == <<"contributor_overlap">>
Organization == <<"shared_organization">>
Stargazer == <<"stargazer_overlap">>
Kinds == {Topic, Contributor, Organization, Stargazer}

\* The run went through evaluation and combination.
Completed ==
    /\ entry \in {Generate, Create}
    /\ outcome = "returned"
    /\ "total_edges" \in DOMAIN edge_stats

NodeIds == SeqRange(G.nodes)
NodePairs == {p \in SUBSET NodeIds : Cardinality(p) = 2}
HasEdge(p) == p \in DOMAIN G.edges

\* The criteria the entry point takes as enabled (topic linking is on by
\* default when a graph is built, off by default on an existing graph).
IsEnabled(kind) ==
    IF kind = Topic THEN Get(criteria_config, "topic_based_linking", entry = Generate)
    ELSE IF kind = Contributor THEN Get(criteria_config, "contributor_overlap_enabled", FALSE)
    ELSE IF kind = Organization THEN Get(criteria_config, "shared_organization_enabled", FALSE)
    ELSE Get(criteria_config, "common_stargazers_enabled", FALSE)

EnabledKinds == {k \in Kinds : IsEnabled(k)}

\* The configured threshold of a criterion: the option of section 3 when the
\* config carries it, else what the entry point falls back on.
ConfiguredThreshold(kind) ==
    IF kind = Topic
    THEN Get(criteria_config, "topic_threshold", IF entry = Generate THEN 1 ELSE 2)
    ELSE IF kind = Contributor
    THEN Get(criteria_config, "contributor_overlap_threshold",
             IF entry = Generate THEN 2 ELSE Get(criteria_config, "contributor_threshold", 1))
    ELSE Get(criteria_config, "stargazer_overlap_threshold",
             IF entry = Generate THEN 2 ELSE Get(criteria_config, "stargazer_threshold", 5))

\* topics(a): the non-empty '|'-separated tokens of the topics attribute
TopicTokens(a) ==
    LET text == Get(G.attrs[a], "topics", <<>>)
    IN IF text = <<>> THEN {} ELSE SeqRange(Split(text, "|")) \ {<<>>}

SharedNames(a, b, attribute) ==
    _parse_list_string(Get(G.attrs[a], attribute, <<>>))
    \cap _parse_list_string(Get(G.attrs[b], attribute, <<>>))

\* The predicate of a criterion on the pair {a, b}
PredicateHolds(kind, a, b) ==
    IF kind = Topic
    THEN Cardinality(TopicTokens(a) \cap TopicTokens(b)) >= ConfiguredThreshold(Topic)
    ELSE IF kind = Contributor
    THEN Cardinality(SharedNames(a, b, "contributors")) >= ConfiguredThreshold(Contributor)
    ELSE IF kind = Organization
    THEN OrgOf(a) # <<>> /\ OrgOf(a) = OrgOf(b)
    ELSE Cardinality(SharedNames(a, b, "stargazers")) >= ConfiguredThreshold(Stargazer)

SatisfiedKinds(p) ==
    {k \in EnabledKinds : \E a \in p : \E b \in p \ {a} : PredicateHolds(k, a, b)}

\* The kinds of the candidate edges the evaluators emitted for the pair
CandidateKinds(p) ==
    {all_edges[i][3]["edge_type"].v :
        i \in {j \in 1..Len(all_edges) : {all_edges[j][1], all_edges[j][2]} = p}}

\* On this pair the evaluators emitted exactly the criteria whose predicate holds.
EvaluatorsExact(p) == CandidateKinds(p) = SatisfiedKinds(p)

Strict == Get(criteria_config, "strict_and_logic", FALSE)
MinRequired == Get(criteria_config, "min_criteria_required", 0)
UseAnd == Get(criteria_config, "use_and_logic", FALSE)

OrPolicy == ~Strict /\ MinRequired <= 1 /\ ~UseAnd
FlexiblePolicy == ~Strict /\ MinRequired > 1
UseAndPolicy == ~Strict /\ MinRequired <= 1 /\ UseAnd

----------------------------------------------------------------------------
(* Properties *)

\* C1 (OR semantics): with strict_and_logic false, min_criteria_required <= 1
\* and use_and_logic false, after either entry point completes the graph has
\* an edge between two distinct nodes iff at least one enabled criterion's
\* predicate, with its configured threshold, holds for the pair.
OrSemantics ==
    (Completed /\ OrPolicy) =>
        \A p \in NodePairs : HasEdge(p) <=> SatisfiedKinds(p) # {}

\* C2 (strict AND): with strict_and_logic true the graph has an edge between
\* a and b iff every enabled criterion's predicate holds for the pair.  Stated
\* for the pairs on which the evaluators are exact, so that a violation is a
\* fault of the combination step.
StrictAndSemantics ==
    (Completed /\ Strict) =>
        \A p \in NodePairs :
            EvaluatorsExact(p) => (HasEdge(p) <=> SatisfiedKinds(p) = EnabledKinds)

\* C3 (flexible AND): with strict_and_logic false and min_criteria_required
\* = k > 1 the graph has an edge between a and b iff at least k enabled
\* criteria hold for the pair, whatever the number of enabled criteria.
\* Stated for the pairs on which the evaluators are exact.
FlexibleAndSemantics ==
    (Completed /\ FlexiblePolicy) =>
        \A p \in NodePairs :
            EvaluatorsExact(p) =>
                (HasEdge(p) <=> Cardinality(SatisfiedKinds(p)) >= MinRequired)

\* C4 (use_and_logic): with strict_and_logic false, min_criteria_required <= 1
\* and use_and_logic true the graph has an edge between a and b iff the pair
\* has candidate edges of at least two criteria, every edge is tagged
\* 'combined', and with at most one enabled criterion there is no edge.
UseAndSemantics ==
    (Completed /\ UseAndPolicy) =>
        /\ DOMAIN G.edges \subseteq NodePairs
        /\ \A p \in NodePairs :
              /\ HasEdge(p) <=> Cardinality(CandidateKinds(p)) >= 2
              /\ HasEdge(p) => G.edges[p]["edge_type"].v = <<"combined">>
        /\ Cardinality(EnabledKinds) <= 1 => DOMAIN G.edges = {}

UseAndWitness ==
    /\ Completed /\ UseAndPolicy
    /\ \E p \in NodePairs : HasEdge(p) /\ G.edges[p]["edge_type"].v = <<"combined">>
    /\ \E q \in NodePairs : Cardinality(CandidateKinds(q)) = 1 /\ ~HasEdge(q)

\* None of the four enabling flags is true in the config.
NoFlagTrue == \A i \in 1..Len(FlagKeys) : ~Get(criteria_config, FlagKeys[i], FALSE)

\* C5 (configuration validation): on both entry points a config in which
\* none of the four enabling flags is true, the empty config included, is
\* rejected with an error before any candidate edge is computed.
ConfigValidated ==
    (entry \in {Generate, Create} /\ NoFlagTrue) =>
        (outcome = "ValueError" /\ all_edges = <<>>)

NotEnoughNodesResult == [message |-> "Not enough nodes to create edges"]

\* C6 as stated (insufficient nodes): for every config,
\* create_edges_on_existing_graph on a graph of 0 or 1 nodes returns
\* {message: 'Not enough nodes to create edges'} and never raises.
InsufficientNodesAnyConfig ==
    (entry = Create /\ Len(G.nodes) < 2) =>
        (outcome = "returned" /\ edge_stats = NotEnoughNodesResult)

\* C6 as amended: the same for every config that enables at least one
\* criterion; a config that enables none is rejected with ValueError first.
InsufficientNodesValidConfig ==
    (entry = Create /\ Len(G.nodes) < 2) =>
        IF NoFlagTrue THEN outcome = "ValueError"
        ELSE outcome = "returned" /\ edge_stats = NotEnoughNodesResult

InsufficientNodesWitness ==
    /\ entry = Create /\ Len(G.nodes) = 1 /\ ~NoFlagTrue
    /\ Strict /\ UseAnd
    /\ edge_stats = NotEnoughNodesResult

WithPolicyKeys(m, u) ==
    Update(criteria_config, [min_criteria_required |-> m, use_and_logic |-> u])

\* C7 (policy precedence): a run applies one policy, strict_and_logic if
\* true, else min_criteria_required if > 1, else use_and_logic if true, else
\* OR; under strict_and_logic the final edges do not depend on
\* min_criteria_required or use_and_logic, and under min_criteria_required > 1
\* they do not depend on use_and_logic; the graph's edges are the pairs of
\* the final edges.
PolicyPrecedence ==
    Completed =>
        /\ final_edges =
             IF Strict THEN _apply_strict_and_logic(all_edges, criteria_config, orders)
             ELSE IF MinRequired > 1
             THEN _apply_flexible_and_logic(all_edges, criteria_config, orders)
             ELSE IF UseAnd
             THEN KeepCombined(_apply_combination_logic(all_edges, criteria_config, orders))
             ELSE _apply_combination_logic(all_edges, criteria_config, orders)
        /\ Strict =>
             \A m \in 0..MaxMinCriteria : \A u \in BOOLEAN :
                 CombineEdges(all_edges, WithPolicyKeys(m, u), u, orders) = final_edges
        /\ FlexiblePolicy =>
             \A u \in BOOLEAN :
                 CombineEdges(all_edges, WithPolicyKeys(MinRequired, u), u, orders)
                    = final_edges
        /\ DOMAIN G.edges = {{final_edges[i][1], final_edges[i][2]} : i \in 1..Len(final_edges)}

\* A strict run on three or more enabled criteria that drops a pair which
\* two criteria satisfy, with min_criteria_required = 2 and use_and_logic set.
PolicyPrecedenceWitness ==
    /\ Completed /\ Strict /\ MinRequired = 2 /\ UseAnd
    /\ Cardinality(EnabledKinds) >= 3
    /\ \E p \in NodePairs : Cardinality(CandidateKinds(p)) = 2 /\ ~HasEdge(p)

FinalPair(i) == {final_edges[i][1], final_edges[i][2]}

\* C8 (at most one final edge per pair): under every policy and config the
\* list of final edges has at most one entry per unordered pair.
AtMostOneFinalEdgePerPair ==
    \A i \in 1..Len(final_edges) : \A j \in 1..Len(final_edges) :
        i # j => FinalPair(i) # FinalPair(j)

Reordered(q, perm) == [i \in 1..Len(q) |-> q[perm[i]]]

\* C9 (merge commutativity): for the candidate edges of a pair,
\* _create_combined_edge yields the same final edge (pair, criteria list,
\* evidence, weight) whatever the order of the candidates.
MergeCommutative ==
    Completed =>
        \A g \in SeqRange(EdgeGroups(all_edges)) :
            \A perm \in Permutations(1..Len(g)) :
                _create_combined_edge(Reordered(g, perm), orders)
                   = _create_combined_edge(g, orders)

\* The number of evidence values a candidate edge records (1 for an organization)
EvidenceCount(edge) ==
    LET d == edge[3]
    IN IF d["edge_type"].v = Topic THEN Len(d["shared_topics"].v)
       ELSE IF d["edge_type"].v = Contributor THEN Len(d["shared_contributors"].v)
       ELSE IF d["edge_type"].v = Stargazer THEN Len(d["shared_stargazers"].v)
       ELSE 1

RECURSIVE EvidenceTotal(_, _)
EvidenceTotal(edges, p) ==
    IF edges = <<>> THEN 0
    ELSE (IF {edges[1][1], edges[1][2]} = p THEN EvidenceCount(edges[1]) ELSE 0)
         + EvidenceTotal(Tail(edges), p)

IsCombined(edge) == edge[3]["edge_type"].v = <<"combined">>

\* C10 (weight additivity): the weight of a combined edge is the sum of the
\* weights of the candidate edges of its pair, a candidate's weight being the
\* number of shared topics, contributors or stargazers it records, or 1 for
\* an organization; the graph carries that sum as the edge's weight.
WeightAdditive ==
    /\ \A j \in 1..Len(all_edges) :
          all_edges[j][3]["weight"].v = EvidenceCount(all_edges[j])
    /\ \A i \in 1..Len(final_edges) :
          IsCombined(final_edges[i]) =>
              /\ final_edges[i][3]["weight"].v = EvidenceTotal(all_edges, FinalPair(i))
              /\ G.edges[FinalPair(i)]["weight"].v
                    = IntToStr(EvidenceTotal(all_edges, FinalPair(i)))

\* A combined edge of all four criteria, of weight 2 + 2 + 1 + 2.
WeightAdditiveWitness ==
    \E i \in 1..Len(final_edges) :
        /\ IsCombined(final_edges[i])
        /\ Len(final_edges[i][3]["criteria_satisfied"].v) = 4
        /\ final_edges[i][3]["weight"].v = 7

\* The entry point run again: on the rows rs, its sets listed in the orders h.
Rerun(name, rs, cfg, h) ==
    IF name = Generate
    THEN generate_edges_with_criteria(rs, cfg, h)
    ELSE create_edges_on_existing_graph(UploadedGraph(rs), cfg, h)

\* C11 (determinism and order independence): a second run of the same entry
\* point on the same nodes and config, in any process and with the nodes
\* presented in any order, yields the same edges in the graph: same pairs,
\* same evidence values and same weights as they appear on the edges.
DeterministicEdgeSet ==
    Completed =>
        \A perm \in Permutations(1..Len(repos)) :
            \A h2 \in ListingOrders(Rerun(entry, Reordered(repos, perm),
                                          criteria_config, NoListing)) :
                Rerun(entry, Reordered(repos, perm), criteria_config, h2).G.edges
                    = G.edges

\* The predicate of a criterion on an unordered pair
HoldsOn(kind, p) == \E a \in p : \E b \in p \ {a} : PredicateHolds(kind, a, b)

\* C12 (contributor and stargazer thresholds): on both entry points the
\* contributor criterion emits a candidate for a pair iff the pair shares at
\* least contributor_overlap_threshold contributors, and the stargazer
\* criterion iff it shares at least stargazer_overlap_threshold stargazers.
OverlapThresholds ==
    Completed =>
        \A k \in {Contributor, Stargazer} \cap EnabledKinds :
            \A p \in NodePairs : (k \in CandidateKinds(p)) <=> HoldsOn(k, p)

SharedTopics(p) == {t \in UNION {TopicTokens(a) : a \in p} : \A a \in p : t \in TopicTokens(a)}

\* The candidate edges of a criterion on a pair
CandidatesOf(kind, p) ==
    {j \in 1..Len(all_edges) :
        {all_edges[j][1], all_edges[j][2]} = p /\ all_edges[j][3]["edge_type"].v = kind}

\* C13 (topic criterion): on both entry points, with S the set of non-empty
\* '|'-separated tokens two nodes share, the topic criterion emits a
\* candidate for the pair iff |S| >= topic_threshold, with evidence S and
\* weight |S|.
TopicCriterion ==
    (Completed /\ IsEnabled(Topic)) =>
        \A p \in NodePairs :
            /\ (CandidatesOf(Topic, p) # {})
                  <=> Cardinality(SharedTopics(p)) >= ConfiguredThreshold(Topic)
            /\ \A j \in CandidatesOf(Topic, p) :
                  /\ SeqRange(all_edges[j][3]["shared_topics"].v) = SharedTopics(p)
                  /\ all_edges[j][3]["weight"].v = Cardinality(SharedTopics(p))

\* The graph as it was uploaded, without its edges
UploadedNodes == RemoveAllEdges(UploadedGraph(repos))

\* C14 (rebuild replaces the edge set): after create_edges_on_existing_graph
\* completes on a graph of at least 2 nodes with a valid config, the edges of
\* the graph are exactly the pairs of the final edges, each edge carries
\* exactly the attributes of its final edge, and the result is the one
\* derived from the node attributes alone: no edge of the uploaded graph
\* survives unless re-derived and none of its attributes is carried over.
RebuildReplacesEdges ==
    (entry = Create /\ Completed) =>
        /\ DOMAIN G.edges = {FinalPair(i) : i \in 1..Len(final_edges)}
        /\ \A i \in 1..Len(final_edges) :
              G.edges[FinalPair(i)]
                 = [key \in DOMAIN final_edges[i][3] |-> CleanValue(final_edges[i][3][key])]
        /\ create_edges_on_existing_graph(UploadedNodes, criteria_config, orders).G = G

\* A rebuild that dropped an uploaded edge and re-derived another pair.
RebuildReplacesWitness ==
    /\ entry = Create /\ Completed
    /\ \E p \in NodePairs : ~HasEdge(p) /\ p \in DOMAIN UploadedGraph(repos).edges
    /\ \E q \in NodePairs : HasEdge(q) /\ "id" \notin DOMAIN G.edges[q]

\* The config gives the four flags and the three thresholds of section 3.
ExplicitConfig ==
    SeqRange(FlagKeys) \cup {"topic_threshold", "contributor_overlap_threshold",
                             "stargazer_overlap_threshold"}
        \subseteq DOMAIN criteria_config

OtherEntry == IF entry = Generate THEN Create ELSE Generate

\* C15 (same pipeline on both paths): for the same nodes with the same
\* attributes and the same config, all flags and thresholds given
\* explicitly, build-from-scratch and rebuild-on-existing produce the same
\* edges with the same attributes.
SamePipeline ==
    (Completed /\ ExplicitConfig /\ ~NoFlagTrue) =>
        Rerun(OtherEntry, repos, criteria_config, orders).G.edges = G.edges

\* C16 (scalar edge attributes): after either entry point completes every
\* attribute value of every edge of the graph is a single string, and each
\* list-valued field of a final edge (shared topics, contributors,
\* stargazers, criteria satisfied) appears on the graph's edge as its
\* elements joined by '|'.
ScalarEdgeAttributes ==
    Completed =>
        /\ \A p \in DOMAIN G.edges : \A key \in DOMAIN G.edges[p] :
              G.edges[p][key].t = "str"
        /\ \A i \in 1..Len(final_edges) : \A key \in DOMAIN final_edges[i][3] :
              IsList(final_edges[i][3][key]) =>
                  /\ key \in DOMAIN G.edges[FinalPair(i)]
                  /\ G.edges[FinalPair(i)][key].v = Join(final_edges[i][3][key].v, "|")

\* A combined edge whose shared topics and criteria list have two elements.
ScalarEdgeAttributesWitness ==
    /\ Completed
    /\ \E i \in 1..Len(final_edges) :
          /\ IsCombined(final_edges[i])
          /\ Len(final_edges[i][3]["criteria_satisfied"].v) >= 2
          /\ "shared_topics" \in DOMAIN final_edges[i][3]
          /\ Len(final_edges[i][3]["shared_topics"].v) = 2
          /\ Len(G.edges[FinalPair(i)]["shared_topics"].v) = 3

StatisticsKeys ==
    {"topic_based_edges", "contributor_overlap_edges", "shared_organization_edges",
     "stargazer_overlap_edges", "total_edges", "total_nodes", "criteria_used",
     "combination_logic_applied"}

\* The number of candidate edges of a criterion before combination
CandidateCount(kind) ==
    Cardinality({j \in 1..Len(all_edges) : all_edges[j][3]["edge_type"].v = kind})

\* C17 (build-from-scratch statistics record): every run of
\* generate_edges_with_criteria that returns for a non-empty corpus answers
\* with a record that has all of topic_based_edges, contributor_overlap_edges,
\* shared_organization_edges, stargazer_overlap_edges, total_edges,
\* total_nodes, criteria_used and combination_logic_applied, each
\* per-criterion count being the number of candidates of that criterion and
\* total_edges the number of edges of the returned graph.
BuildStatisticsRecord ==
    (entry = Generate /\ outcome = "returned" /\ repos # <<>>) =>
        /\ StatisticsKeys \subseteq DOMAIN edge_stats
        /\ edge_stats["topic_based_edges"] = CandidateCount(Topic)
        /\ edge_stats["contributor_overlap_edges"] = CandidateCount(Contributor)
        /\ edge_stats["shared_organization_edges"] = CandidateCount(Organization)
        /\ edge_stats["stargazer_overlap_edges"] = CandidateCount(Stargazer)
        /\ edge_stats["total_edges"] = Cardinality(DOMAIN G.edges)
        /\ edge_stats["total_nodes"] = Len(G.nodes)

\* No edge of G leaves the set S of nodes.
ClosedUnderEdges(S) == \A e \in DOMAIN G.edges : e \cap S # {} => e \subseteq S

\* The connected components of G: the minimal non-empty closed sets of nodes
Components ==
    {S \in SUBSET NodeIds \ {{}} :
        /\ ClosedUnderEdges(S)
        /\ \A T \in SUBSET S \ {{}, S} : ~ClosedUnderEdges(T)}

SameRatio(r, n, d) == r.num * d = n * r.den

\* The record stats reports the graph G of the state.
ReportsGraph(stats) ==
    LET V == Len(G.nodes)
        E == Cardinality(DOMAIN G.edges)
    IN /\ {"total_nodes", "total_edges", "average_degree", "connected_components",
           "density"} \subseteq DOMAIN stats
       /\ stats["total_nodes"] = V
       /\ stats["total_edges"] = E
       /\ IF V = 0 THEN stats["average_degree"].num = 0
          ELSE SameRatio(stats["average_degree"], 2 * E, V)
       /\ stats["connected_components"] = Cardinality(Components)
       /\ IF V < 2 THEN stats["density"].num = 0
          ELSE SameRatio(stats["density"], 2 * E, V * (V - 1))

\* C18 (statistics reporter): for every final graph, a graph with no edges
\* and a graph with no nodes included, the statistics reporters return total
\* nodes, total edges, average degree 2|E|/|V| (0 when |V| = 0), the number
\* of connected components and density 2|E|/(|V|(|V|-1)) (0 when |V| < 2).
StatisticsReporter ==
    (entry \in {Generate, Create} /\ outcome = "returned") =>
        /\ ReportsGraph(graph_stats)
        /\ ReportsGraph(get_edge_statistics(G))

\* The rebuild endpoint answered a request that names a graph with nodes and
\* enables a criterion, i.e. one that reaches the call of the engine.
RebuildRequestServed ==
    /\ entry = "create_edges_on_graph"
    /\ G.nodes # <<>>
    /\ ~NoFlagTrue

\* C19 (node filter on the rebuild endpoint): a request to the rebuild
\* endpoint that reaches edge creation succeeds; when it supplies
\* filtered_node_ids every edge of the resulting graph has both endpoints in
\* that list, and when it supplies none the edges are those the engine
\* creates over all the nodes of the graph.
NodeFilter ==
    RebuildRequestServed =>
        /\ status = 200
        /\ outcome = "returned"
        /\ IF filtered_node_ids = RawNone
           THEN G.edges = create_edges_on_existing_graph(
                              UploadedGraph(repos), criteria_config, orders).G.edges
           ELSE \A p \in DOMAIN G.edges : p \subseteq SeqRange(filtered_node_ids.val)

\* What the request of thread t is answered when it is served alone.
Alone(t) ==
    IF calls[t].endpoint = "generate"
    THEN generate_graph_with_edges(<<<<"m">>>>, calls[t].corpus,
                                   calls[t].criteria_config, frames[t].orders)
    ELSE create_edges_on_graph(UploadedGraph(calls[t].corpus),
                               calls[t].criteria_config, RawNone, NoListing)

\* C20 (independent concurrent invocations): in every interleaving of two
\* invocations of the engine, each on its own graph with its own config, an
\* invocation reads no state written by the other, and the graph it leaves,
\* its statistics and the answer of its request are those of the same
\* request served alone.
IndependentInvocations ==
    \A t \in DOMAIN pc :
        /\ frames[t].read_from \in {0, t}
        /\ pc[t] = "done" =>
               /\ heap[t] = Alone(t).run.G
               /\ returned[t] = Answered(Alone(t))

\* The evaluation order of the criteria
EvaluationOrder == <<Topic, Contributor, Organization, Stargazer>>

\* The kinds of the candidate edges of the pair, in evaluation order
CandidateKindList(p) == SelectSeq(EvaluationOrder, LAMBDA k : k \in CandidateKinds(p))

\* C21 (criteria list of a final edge): the criteria_satisfied of every
\* combined final edge lists exactly the kinds of the candidate edges of its
\* pair, each once, in the order topic, contributor, organization, stargazer;
\* the graph carries that list joined by '|'.
CriteriaList ==
    \A i \in 1..Len(final_edges) :
        IsCombined(final_edges[i]) =>
            /\ final_edges[i][3]["criteria_satisfied"].v = CandidateKindList(FinalPair(i))
            /\ G.edges[FinalPair(i)]["criteria_satisfied"].v
                  = Join(CandidateKindList(FinalPair(i)), "|")

\* A combined edge of contributor, organization and stargazer candidates.
CriteriaListWitness ==
    \E i \in 1..Len(final_edges) :
        /\ IsCombined(final_edges[i])
        /\ final_edges[i][3]["criteria_satisfied"].v
              = <<Contributor, Organization, Stargazer>>
        /\ CandidateKinds(FinalPair(i)) = {Contributor, Organization, Stargazer}

EvidenceKeys == {"shared_topics", "shared_contributors", "organization", "shared_stargazers"}

\* The attribute under which a criterion records its evidence
EvidenceKey(kind) ==
    IF kind = Topic THEN "shared_topics"
    ELSE IF kind = Contributor THEN "shared_contributors"
    ELSE IF kind = Organization THEN "organization"
    ELSE "shared_stargazers"

\* C22 (edge-kind tag): after either entry point completes, under every
\* policy and config, an edge of the graph is tagged 'combined' iff candidates
\* of more than one criterion exist for its pair, and an edge whose pair has
\* candidates of exactly one criterion is tagged with that criterion and
\* carries the evidence attribute of that criterion only.
EdgeKindTag ==
    Completed =>
        \A p \in DOMAIN G.edges :
            /\ (G.edges[p]["edge_type"].v = <<"combined">>)
                  <=> Cardinality(CandidateKinds(p)) > 1
            /\ \A k \in Kinds :
                  CandidateKinds(p) = {k} =>
                      /\ G.edges[p]["edge_type"].v = k
                      /\ DOMAIN G.edges[p] \cap EvidenceKeys = {EvidenceKey(k)}

\* The evidence values of a candidate edge, as a set
EvidenceSet(edge) ==
    LET value == edge[3][EvidenceKey(edge[3]["edge_type"].v)]
    IN IF IsList(value) THEN SeqRange(value.v) ELSE {value.v}

\* C23 (evidence preservation in merge): a combined final edge records, for
\* every criterion that has a candidate for its pair, a list whose values
\* are exactly the evidence values of that candidate, each once, and records
\* evidence of no other criterion; the graph carries the same values joined
\* by '|'.
EvidencePreserved ==
    \A i \in 1..Len(final_edges) :
        IsCombined(final_edges[i]) =>
            /\ DOMAIN final_edges[i][3] \cap EvidenceKeys
                  = {EvidenceKey(k) : k \in CandidateKinds(FinalPair(i))}
            /\ \A j \in 1..Len(all_edges) :
                  {all_edges[j][1], all_edges[j][2]} = FinalPair(i) =>
                      LET key == EvidenceKey(all_edges[j][3]["edge_type"].v)
                          merged == final_edges[i][3][key]
                      IN /\ IsList(merged)
                         /\ SeqRange(merged.v) = EvidenceSet(all_edges[j])
                         /\ Len(merged.v) = Cardinality(EvidenceSet(all_edges[j]))
                         /\ SeqRange(Split(G.edges[FinalPair(i)][key].v, "|"))
                               = EvidenceSet(all_edges[j])

\* A combined edge of all four criteria, two values for each list criterion.
EvidencePreservedWitness ==
    \E i \in 1..Len(final_edges) :
        /\ IsCombined(final_edges[i])
        /\ CandidateKinds(FinalPair(i)) = Kinds
        /\ Len(final_edges[i][3]["shared_topics"].v) = 2
        /\ Len(final_edges[i][3]["shared_contributors"].v) = 2
        /\ Len(final_edges[i][3]["shared_stargazers"].v) = 2
        /\ Len(final_edges[i][3]["organization"].v) = 1

\* The position of the first '/' of an identifier (0 when it has none)
FirstSlash(id) ==
    IF \E i \in 1..Len(id) : id[i] = "/"
    THEN CHOOSE i \in 1..Len(id) : id[i] = "/" /\ \A j \in 1..(i - 1) : id[j] # "/"
    ELSE 0

\* The segment of an identifier before its first '/'
OwnerSegment(id) == SubSeq(id, 1, FirstSlash(id) - 1)

SameOrganization(a, b) ==
    /\ FirstSlash(a) > 0 /\ FirstSlash(b) > 0
    /\ OwnerSegment(a) # <<>> /\ OwnerSegment(b) # <<>>
    /\ OwnerSegment(a) = OwnerSegment(b)

\* C24 (shared-organization criterion): when the criterion is enabled, on both
\* entry points a pair of distinct nodes has an organization candidate iff
\* both identifiers contain '/', both have a non-empty segment before the
\* first '/' and the segments are equal; the pair then has one candidate,
\* whose evidence is that segment and whose weight is 1.
SharedOrganizationCriterion ==
    (Completed /\ IsEnabled(Organization)) =>
        \A p \in NodePairs :
            /\ (CandidatesOf(Organization, p) # {})
                  <=> (\E a \in p : \E b \in p \ {a} : SameOrganization(a, b))
            /\ Cardinality(CandidatesOf(Organization, p)) <= 1
            /\ \A j \in CandidatesOf(Organization, p) :
                  /\ all_edges[j][3]["organization"] = PyStr(OwnerSegment(all_edges[j][1]))
                  /\ all_edges[j][3]["weight"] = PyInt(1)

\* Two identifiers with an empty owner part, which get no organization
\* candidate, in a run that has candidates of the other criteria for them.
SharedOrganizationWitness ==
    /\ Completed /\ IsEnabled(Organization)
    /\ \E p \in NodePairs :
          /\ \A a \in p : FirstSlash(a) = 1
          /\ CandidatesOf(Organization, p) = {}
          /\ CandidateKinds(p) # {}

\* Two identifiers with the same owner part, one of them with two '/'.
SharedOrganizationTwoSlashes ==
    /\ Completed /\ IsEnabled(Organization)
    /\ \E p \in NodePairs :
          /\ \E a \in p : Cardinality({i \in 1..Len(a) : a[i] = "/"}) = 2
          /\ CandidatesOf(Organization, p) # {}

\* C25 (pair scan): the pairs an evaluator visits are the unordered pairs of
\* distinct nodes, each once; so no candidate edge joins a node to itself and
\* no pair has two candidates of the same kind.
PairScan ==
    Completed =>
        /\ {{pair[1], pair[2]} : pair \in SeqRange(OrderedPairs(G.nodes))} = NodePairs
        /\ Len(OrderedPairs(G.nodes)) = Cardinality(NodePairs)
        /\ \A j \in 1..Len(all_edges) : all_edges[j][1] # all_edges[j][2]
        /\ \A p \in NodePairs : \A k \in Kinds : Cardinality(CandidatesOf(k, p)) <= 1

\* A run on three nodes in which every pair has a candidate of each of two
\* kinds: six candidates, none repeated.
PairScanWitness ==
    /\ Completed
    /\ Len(G.nodes) = 3
    /\ \E k1 \in Kinds : \E k2 \in Kinds \ {k1} :
          \A p \in NodePairs :
              Cardinality(CandidatesOf(k1, p)) = 1 /\ Cardinality(CandidatesOf(k2, p)) = 1

\* C26 (total attribute parsing): whatever the contributors, stargazers and
\* topics attributes of the nodes hold (empty, whitespace, malformed bracketed
\* text, or a value that is not a str), no exception raised while an attribute
\* is parsed leaves an entry point: a call ends by returning, or by rejecting
\* the config.
TotalAttributeParsing ==
    entry \in {Generate, Create} => outcome \in {"returned", "ValueError"}

\* The sum of the counts of a breakdown
RECURSIVE SumCounts(_)
SumCounts(breakdown) ==
    IF DOMAIN breakdown = {} THEN 0
    ELSE LET key == CHOOSE k \in DOMAIN breakdown : TRUE
         IN breakdown[key]
              + SumCounts([k \in DOMAIN breakdown \ {key} |-> breakdown[k]])

\* The key of a set of criteria: its labels in sorted order, joined with '|'
SortedKey(kinds) ==
    Join(SelectSeq(<<Contributor, Organization, Stargazer, Topic>>,
                   LAMBDA k : k \in kinds), "|")

\* The final edges tagged 'combined', and the graph with the final edges as
\* they are before cleaning (criteria stored as lists)
CombinedFinalEdges == {i \in 1..Len(final_edges) : IsCombined(final_edges[i])}
GraphWithLists == AddEdgesFrom(RemoveAllEdges(G), final_edges)

\* C27 (combined-edge breakdown): when the reporter reports on the graph of a
\* completed call, the combined breakdown has exactly the keys obtained by
\* sorting the satisfied criteria of each combined edge and joining them with
\* '|', each key counts the combined edges with that key, the breakdown is the
\* same when the criteria are stored as lists, its counts sum to the number of
\* 'combined' edges, and the counts of the edge-type breakdown sum to
\* total_edges.
CombinedBreakdown ==
    (Completed /\ DOMAIN G.edges # {}) =>
        LET key(i) == SortedKey(SeqRange(final_edges[i][3]["criteria_satisfied"].v))
            combined_edges == graph_stats["combined_edge_breakdown"]
            edge_types == graph_stats["edge_type_breakdown"]
        IN /\ DOMAIN combined_edges = {key(i) : i \in CombinedFinalEdges}
           /\ \A k \in DOMAIN combined_edges :
                  combined_edges[k] = Cardinality({i \in CombinedFinalEdges : key(i) = k})
           /\ get_detailed_edge_statistics(GraphWithLists)["combined_edge_breakdown"]
                  = combined_edges
           /\ SumCounts(combined_edges)
                  = Cardinality({p \in DOMAIN G.edges :
                                    G.edges[p]["edge_type"].v = <<"combined">>})
           /\ SumCounts(edge_types) = graph_stats["total_edges"]
           /\ graph_stats["total_edges"] = Cardinality(DOMAIN G.edges)

\* Two combined edges with different criteria, one of them stored in an order
\* that is not the sorted one.
CombinedBreakdownWitness ==
    /\ Completed
    /\ DOMAIN G.edges # {}
    /\ Cardinality(DOMAIN graph_stats["combined_edge_breakdown"]) >= 2
    /\ \E i \in CombinedFinalEdges :
           final_edges[i][3]["criteria_satisfied"].v[1] = Topic

\* C28 (frame of the rebuild path): however create_edges_on_existing_graph
\* ends, the nodes of the graph and their attributes are those of the
\* uploaded graph, in the same order; and when no criterion is enabled the
\* call is rejected with the uploaded edges and their attributes unchanged.
RebuildFrame ==
    entry = Create =>
        /\ G.nodes = UploadedGraph(repos).nodes
        /\ G.attrs = UploadedGraph(repos).attrs
        /\ NoFlagTrue => (outcome = "ValueError" /\ G = UploadedGraph(repos))

\* A rejected rebuild of a graph that had edges, and (auxiliary) a completed
\* rebuild that replaced the edges of a graph with attributes.
RebuildFrameWitness ==
    /\ entry = Create /\ NoFlagTrue /\ outcome = "ValueError"
    /\ DOMAIN G.edges # {}
    /\ \E id \in DOMAIN G.attrs : G.attrs[id]["topics"] # <<>>

RebuildFrameCompleted ==
    /\ entry = Create /\ Completed
    /\ DOMAIN G.edges # {} /\ G.edges # UploadedGraph(repos).edges
    /\ \E id \in DOMAIN G.attrs : G.attrs[id]["contributors"] = NotAStr

\* The pairs that have a final edge when the candidates of the run are
\* combined under the policy keys (strict_and_logic, min_criteria_required,
\* use_and_logic) = (st, m, u), everything else in the config unchanged.
PolicyPairs(st, m, u) ==
    LET cfg == Update(criteria_config, [strict_and_logic |-> st,
                                        min_criteria_required |-> m,
                                        use_and_logic |-> u])
        edges == CombineEdges(all_edges, cfg, u, orders)
    IN {{edges[i][1], edges[i][2]} : i \in 1..Len(edges)}

\* strict_and_logic yields a subset of use_and_logic when two or more
\* criteria are enabled
StrictWithinUseAnd ==
    (Completed /\ Cardinality(EnabledKinds) >= 2) =>
        \A m \in 0..MaxMinCriteria : \A u \in BOOLEAN :
            PolicyPairs(TRUE, m, u) \subseteq PolicyPairs(FALSE, 0, TRUE)

\* min_criteria_required = k + 1 yields a subset of min_criteria_required = k
MinRequiredMonotone ==
    Completed =>
        \A k \in 0..(MaxMinCriteria - 1) :
            PolicyPairs(FALSE, k + 1, UseAnd) \subseteq PolicyPairs(FALSE, k, UseAnd)

\* every AND policy yields a subset of OR semantics
AndWithinOr ==
    Completed =>
        \A st \in BOOLEAN : \A m \in 0..MaxMinCriteria : \A u \in BOOLEAN :
            PolicyPairs(st, m, u) \subseteq PolicyPairs(FALSE, 0, FALSE)

\* C29 (policy monotonicity): for the candidates of a completed run, the
\* pairs kept under strict_and_logic are among those kept under use_and_logic
\* when two or more criteria are enabled, the pairs kept under
\* min_criteria_required = k + 1 are among those kept under k, and the pairs
\* kept under every AND policy are among those kept under OR semantics.
PolicyMonotone == StrictWithinUseAnd /\ MinRequiredMonotone /\ AndWithinOr

\* The per-criterion candidate counts the statistics report, and their sum
CountKeys == {"topic_based_edges", "contributor_overlap_edges",
              "shared_organization_edges", "stargazer_overlap_edges"}
ReportedCandidates ==
    SumCounts([k \in CountKeys \cap DOMAIN edge_stats |-> edge_stats[k]])

\* C30 (simple result graph): after either entry point returns, every edge of
\* the graph joins two different nodes of the graph; and when the statistics
\* report total_edges, it is the number of distinct unordered pairs that have
\* a final edge, at most |V|*(|V|-1)/2, and at most the sum of the
\* per-criterion candidate counts the statistics report.
SimpleResultGraph ==
    (entry \in {Generate, Create} /\ outcome = "returned") =>
        /\ \A p \in DOMAIN G.edges :
              Cardinality(p) = 2 /\ p \subseteq SeqRange(G.nodes)
        /\ "total_edges" \in DOMAIN edge_stats =>
              /\ edge_stats["total_edges"]
                    = Cardinality({FinalPair(i) : i \in 1..Len(final_edges)})
              /\ 2 * edge_stats["total_edges"] <= Len(G.nodes) * (Len(G.nodes) - 1)
              /\ edge_stats["total_edges"] <= ReportedCandidates

\* A complete graph on three nodes whose edges merge more candidates than
\* there are pairs.
SimpleResultGraphWitness ==
    /\ Completed
    /\ Len(G.nodes) = 3
    /\ edge_stats["total_edges"] = 3
    /\ ReportedCandidates > 3

============================================================================
